---------------------------- MODULE Spec2Model ----------------------------
(***************************************************************************)
(* A model of the GUIDE live-session front end:                            *)
(*   gemini/object_dict.py         ObjectDict (the location index)         *)
(*   gemini/process_graph.py       ProcessGraph                            *)
(*   gemini/preference_service.py  PreferenceService (the tool handlers)   *)
(*   gemini/gemini.py              AudioLoop (the session orchestrator)    *)
(***************************************************************************)
EXTENDS Integers, Sequences, FiniteSets, TLC

VARIABLES
    data,           \* ObjectDict._data: the location tree
    graphs,         \* PreferenceService._graphs: name -> adjacency, in insertion order
    last,           \* the last call made on the store and what it returned or raised
    ops,            \* number of calls made on the store so far
    handle,         \* per caller of _handle_tool_call: where it is in the batch
    tool_lock,      \* AudioLoop._tool_lock: its holder and the waiters in order
    sent_responses, \* the batches given to session.send_tool_response, in order
    orphans,        \* handler runs left on worker threads by cancelled callers
    left,           \* what the environment may still supply (inputs not yet used)
    run,            \* AudioLoop.run: where it is, the session, why it is closing
    task,           \* per task of the group: the await it is suspended at
    held,           \* per task: the chunk it has in hand across an await
    out_queue,      \* AudioLoop.out_queue
    audio_in_queue, \* AudioLoop.audio_in_queue
    dev,            \* the microphone, camera and speaker, and self.audio_stream
    log             \* what became of each chunk (history, not program state)

storeVars == <<data, graphs, last, ops>>

batchVars == <<handle, tool_lock, sent_responses, orphans>>

loopVars == <<run, task, held, out_queue, audio_in_queue, dev, log>>

vars == <<data, graphs, last, ops, handle, tool_lock, sent_responses, orphans, left,
          run, task, held, out_queue, audio_in_queue, dev, log>>

(***************************************************************************)
(* Values.  A node of the location tree is a dict (keys in insertion       *)
(* order, one child per key) or a list bucket of object names.             *)
(***************************************************************************)
NoKids == [k \in {} |-> 0]

EmptyDict == [t |-> "dict", keys |-> <<>>, kids |-> NoKids, items |-> <<>>]

Bucket(items) == [t |-> "list", keys |-> <<>>, kids |-> NoKids, items |-> items]

IsDict(n) == n.t = "dict"

IsList(n) == n.t = "list"

\* key in node
HasKey(n, k) == k \in DOMAIN n.kids

\* node[key] = v (a new key goes last: Python dicts keep insertion order)
DictSet(n, k, v) ==
    IF HasKey(n, k)
    THEN [n EXCEPT !.kids = [x \in DOMAIN n.kids |-> IF x = k THEN v ELSE n.kids[x]]]
    ELSE [n EXCEPT !.keys = Append(n.keys, k),
                   !.kids = [x \in DOMAIN n.kids \cup {k} |->
                                IF x = k THEN v ELSE n.kids[x]]]

\* node.pop(key, None)
DictPop(n, k) ==
    IF ~HasKey(n, k) THEN n
    ELSE [n EXCEPT !.keys = SelectSeq(n.keys, LAMBDA x : x # k),
                   !.kids = [x \in DOMAIN n.kids \ {k} |-> n.kids[x]]]

\* `not child` for a dict or a list
IsEmptyNode(n) == IF IsDict(n) THEN n.keys = <<>> ELSE n.items = <<>>

\* name in bucket
InSeq(s, x) == \E i \in 1..Len(s) : s[i] = x

\* list.remove(x): drops the first occurrence
RemoveFirst(s, x) ==
    LET i == CHOOSE j \in 1..Len(s) : s[j] = x /\ \A m \in 1..(j - 1) : s[m] # x
    IN  SubSeq(s, 1, i - 1) \o SubSeq(s, i + 1, Len(s))

(***************************************************************************)
(* Paths.  A caller hands a path either as a sequence of keys or as one    *)
(* string; a string is modelled as its sequence of tokens, each a whole    *)
(* key or one separator (two keys are never adjacent in a string path, so  *)
(* the segments between separators are single keys or empty).              *)
(***************************************************************************)
Sep == "/"

SeqPath(keys) == [str |-> FALSE, toks |-> keys]

StrPath(toks) == [str |-> TRUE, toks |-> toks]

\* str.split(sep) followed by filter(None, ...): the tokens between separators,
\* empty segments dropped
SplitDrop(toks) == SelectSeq(toks, LAMBDA c : c # Sep)

\* ObjectDict._normalize_path: [exc, path]
_normalize_path(path) ==
    LET parts == IF path.str THEN SplitDrop(path.toks) ELSE path.toks
    IN  IF parts = <<>> THEN [exc |-> "ValueError", path |-> <<>>]
        ELSE [exc |-> "none", path |-> parts]

(***************************************************************************)
(* ObjectDict                                                              *)
(***************************************************************************)
RECURSIVE WalkFrom(_, _)
\* the loop of ObjectDict._walk from `node` along `path`: [exc, node]
WalkFrom(node, path) ==
    IF path = <<>> THEN [exc |-> "none", node |-> node]
    ELSE IF ~IsDict(node) \/ ~HasKey(node, Head(path))
         THEN [exc |-> "KeyError", node |-> node]
         ELSE WalkFrom(node.kids[Head(path)], Tail(path))

\* ObjectDict._walk
_walk(d, path) == WalkFrom(d, path)

\* ObjectDict.has_path: [exc, ret]
has_path(d, path) ==
    LET n == _normalize_path(path)
    IN  IF n.exc # "none" THEN [exc |-> n.exc, ret |-> FALSE]
        ELSE [exc |-> "none", ret |-> _walk(d, n.path).exc = "none"]

\* ObjectDict.get_path: [exc, found, node]; found = FALSE stands for `default`
get_path(d, path) ==
    LET n == _normalize_path(path)
        w == _walk(d, n.path)
    IN  IF n.exc # "none" THEN [exc |-> n.exc, found |-> FALSE, node |-> EmptyDict]
        ELSE [exc |-> "none", found |-> w.exc = "none", node |-> w.node]

RECURSIVE EnsureFrom(_, _, _)
\* the descent of ObjectDict._ensure_bucket below `parent`: [exc, node], node being
\* `parent` as the descent leaves it (setdefault and the new bucket included)
EnsureFrom(parent, path, create) ==
    IF ~IsDict(parent) THEN [exc |-> "TypeError", node |-> parent]
    ELSE LET key == Head(path) IN
         IF Len(path) > 1
         THEN IF ~HasKey(parent, key) /\ ~create
              THEN [exc |-> "KeyError", node |-> parent]
              ELSE LET child == IF HasKey(parent, key) THEN parent.kids[key] ELSE EmptyDict
                       r == EnsureFrom(child, Tail(path), create)
                   IN  [exc |-> r.exc, node |-> DictSet(parent, key, r.node)]
         ELSE IF ~HasKey(parent, key)
              THEN IF ~create THEN [exc |-> "KeyError", node |-> parent]
                   ELSE [exc |-> "none", node |-> DictSet(parent, key, Bucket(<<>>))]
              ELSE IF ~IsList(parent.kids[key])
                   THEN [exc |-> "TypeError", node |-> parent]
                   ELSE [exc |-> "none", node |-> parent]

\* ObjectDict._ensure_bucket: [exc, data, path]; the bucket it returns is the node
\* of `data` at `path`
_ensure_bucket(d, path, create) ==
    LET n == _normalize_path(path)
        r == EnsureFrom(d, n.path, create)
    IN  IF n.exc # "none" THEN [exc |-> n.exc, data |-> d, path |-> <<>>]
        ELSE [exc |-> r.exc, data |-> r.node, path |-> n.path]

RECURSIVE SetAt(_, _, _)
\* the tree with the node at the existing path replaced (an in-place mutation
\* of the object a reference points to)
SetAt(node, path, v) ==
    IF path = <<>> THEN v
    ELSE DictSet(node, Head(path), SetAt(node.kids[Head(path)], Tail(path), v))

\* the items of the bucket at an existing path
BucketAt(d, path) == WalkFrom(d, path).node.items

RECURSIVE deepcopy(_)
\* copy.deepcopy of a node: a new mapping or list at every depth, with the same
\* keys in the same order and the same items (strings are immutable)
deepcopy(node) ==
    IF IsList(node) THEN Bucket(node.items)
    ELSE [t |-> "dict", keys |-> node.keys,
          kids |-> [k \in DOMAIN node.kids |-> deepcopy(node.kids[k])],
          items |-> <<>>]

RECURSIVE NodePaths(_, _)
\* the paths of the nodes at and below `node`, itself at `path`
NodePaths(node, path) ==
    {path} \cup
    IF IsList(node) THEN {}
    ELSE UNION {NodePaths(node.kids[k], Append(path, k)) : k \in DOMAIN node.kids}

\* a structure handed to a caller: its value, and the paths at which its node is
\* the very object the index holds (a mutation there is a mutation of the index)
Handle(tree, shared) == [tree |-> tree, shared |-> shared]

\* as_dict returning dict(self._data): a new top-level mapping whose children are
\* the index's own nodes
as_dict_shallow(d) == Handle(d, NodePaths(d, <<>>) \ {<<>>})

\* ObjectDict.as_dict: deepcopy(self._data), which shares no node with the index
as_dict(d) == Handle(deepcopy(d), {})

RECURSIVE PruneFrom(_, _)
\* ObjectDict._prune_empty_branch below `current`: [node, go]; go = FALSE once the
\* method has returned early or the upward loop has hit its break
PruneFrom(current, path) ==
    LET key == Head(path) IN
    IF Len(path) > 1
    THEN IF ~IsDict(current) \/ ~HasKey(current, key)
         THEN [node |-> current, go |-> FALSE]
         ELSE LET r == PruneFrom(current.kids[key], Tail(path)) IN
              IF r.go /\ IsEmptyNode(r.node)
              THEN [node |-> DictPop(current, key), go |-> TRUE]
              ELSE [node |-> DictSet(current, key, r.node), go |-> FALSE]
    ELSE IF ~IsDict(current) THEN [node |-> current, go |-> FALSE]
         ELSE IF HasKey(current, key) /\ IsList(current.kids[key])
                    /\ current.kids[key].items = <<>>
              THEN [node |-> DictPop(current, key), go |-> TRUE]
              ELSE [node |-> current, go |-> TRUE]

\* _prune_empty_branch without the upward loop: only the empty bucket at the path
\* is popped
_prune_leaf_only(d, path) ==
    LET parent == SubSeq(path, 1, Len(path) - 1)
        key == path[Len(path)]
        w == WalkFrom(d, parent)
    IN  IF /\ w.exc = "none" /\ IsDict(w.node) /\ HasKey(w.node, key)
           /\ IsList(w.node.kids[key]) /\ w.node.kids[key].items = <<>>
        THEN SetAt(d, parent, DictPop(w.node, key))
        ELSE d

\* ObjectDict._prune_empty_branch (the path it is given is already normalized
\* and non-empty at both call sites): the tree afterwards
_prune_empty_branch(d, path) == PruneFrom(d, path).node

RECURSIVE IterFrom(_, _)
RECURSIVE IterKeys(_, _, _)
\* ObjectDict._iter_objects: the sequence of <<object, path>> it yields
IterFrom(node, path) ==
    IF IsList(node) THEN [i \in 1..Len(node.items) |-> <<node.items[i], path>>]
    ELSE IterKeys(node, path, 1)

\* the `for key, child in node.items()` loop of _iter_objects from the i-th key
IterKeys(node, path, i) ==
    IF i > Len(node.keys) THEN <<>>
    ELSE IterFrom(node.kids[node.keys[i]], Append(path, node.keys[i]))
            \o IterKeys(node, path, i + 1)

\* ObjectDict.iter_object_paths
iter_object_paths(d) == IterFrom(d, <<>>)

NoPath == <<>>

\* find_object with the scan keeping the last match instead of returning the first
find_object_last(d, name) ==
    LET it == iter_object_paths(d)
        hits == {i \in 1..Len(it) : it[i][1] = name}
    IN  IF hits = {} THEN NoPath
        ELSE it[CHOOSE i \in hits : \A j \in hits : i >= j][2]

\* ObjectDict.find_object: the first path that holds the name, NoPath for None
find_object(d, name) ==
    LET it == iter_object_paths(d)
        hits == {i \in 1..Len(it) : it[i][1] = name}
    IN  IF hits = {} THEN NoPath
        ELSE it[CHOOSE i \in hits : \A j \in hits : i <= j][2]

\* ObjectDict.list_objects: for each name the list of paths, in yield order
list_objects(d) ==
    LET it == iter_object_paths(d)
        names == {it[i][1] : i \in 1..Len(it)}
        Pick(nm) == SelectSeq(it, LAMBDA e : e[1] = nm)
    IN  [nm \in names |-> [i \in 1..Len(Pick(nm)) |-> Pick(nm)[i][2]]]

RECURSIVE DeleteFrom(_, _)
\* ObjectDict.delete_path below `current`: [ret, node, go]; go = FALSE once the
\* clean-up loop over the parents has hit its break
DeleteFrom(current, path) ==
    LET key == Head(path) IN
    IF ~IsDict(current) \/ ~HasKey(current, key)
    THEN [ret |-> FALSE, node |-> current, go |-> FALSE]
    ELSE IF Len(path) = 1
         THEN [ret |-> TRUE, node |-> DictPop(current, key), go |-> TRUE]
         ELSE LET r == DeleteFrom(current.kids[key], Tail(path)) IN
              IF ~r.ret THEN [ret |-> FALSE, node |-> current, go |-> FALSE]
              ELSE IF r.go /\ IsEmptyNode(r.node)
                   THEN [ret |-> TRUE, node |-> DictPop(current, key), go |-> TRUE]
                   ELSE [ret |-> TRUE, node |-> DictSet(current, key, r.node),
                         go |-> FALSE]

\* delete_path that reports True whether or not the path was there
delete_path_silent(d, path) ==
    LET n == _normalize_path(path)
        r == DeleteFrom(d, n.path)
    IN  IF n.exc # "none" THEN [exc |-> n.exc, ret |-> FALSE, data |-> d]
        ELSE [exc |-> "none", ret |-> TRUE, data |-> r.node]

\* ObjectDict.delete_path: [exc, ret, data]
delete_path(d, path) ==
    LET n == _normalize_path(path)
        r == DeleteFrom(d, n.path)
    IN  IF n.exc # "none" THEN [exc |-> n.exc, ret |-> FALSE, data |-> d]
        ELSE [exc |-> "none", ret |-> r.ret, data |-> r.node]

\* add_object without the membership test
add_object_unchecked(d, path, object_name, allow_duplicates) ==
    LET e == _ensure_bucket(d, path, TRUE) IN
    IF e.exc # "none" THEN [exc |-> e.exc, ret |-> FALSE, data |-> e.data]
    ELSE [exc |-> "none", ret |-> TRUE,
          data |-> SetAt(e.data, e.path,
                         Bucket(Append(BucketAt(e.data, e.path), object_name)))]

\* ObjectDict.add_object: [exc, ret, data]
add_object(d, path, object_name, allow_duplicates) ==
    LET e == _ensure_bucket(d, path, TRUE)
        bucket == BucketAt(e.data, e.path)
    IN  IF e.exc # "none" THEN [exc |-> e.exc, ret |-> FALSE, data |-> e.data]
        ELSE IF ~allow_duplicates /\ InSeq(bucket, object_name)
             THEN [exc |-> "none", ret |-> FALSE, data |-> e.data]
             ELSE [exc |-> "none", ret |-> TRUE,
                   data |-> SetAt(e.data, e.path, Bucket(Append(bucket, object_name)))]

RECURSIVE ExtendLoop(_, _, _, _)
\* the `for name in object_names` loop of extend_objects: [items, inserted]
ExtendLoop(bucket, object_names, allow_duplicates, inserted) ==
    IF object_names = <<>> THEN [items |-> bucket, inserted |-> inserted]
    ELSE IF ~allow_duplicates /\ InSeq(bucket, Head(object_names))
         THEN ExtendLoop(bucket, Tail(object_names), allow_duplicates, inserted)
         ELSE ExtendLoop(Append(bucket, Head(object_names)), Tail(object_names),
                         allow_duplicates, inserted + 1)

\* extend_objects that appends every name, whatever allow_duplicates says
extend_objects_all(d, path, object_names, allow_duplicates) ==
    LET e == _ensure_bucket(d, path, TRUE)
        r == ExtendLoop(BucketAt(e.data, e.path), object_names, TRUE, 0)
    IN  IF e.exc # "none" THEN [exc |-> e.exc, ret |-> 0, data |-> e.data]
        ELSE [exc |-> "none", ret |-> r.inserted,
              data |-> SetAt(e.data, e.path, Bucket(r.items))]

\* ObjectDict.extend_objects: [exc, ret, data], ret the number of insertions
extend_objects(d, path, object_names, allow_duplicates) ==
    LET e == _ensure_bucket(d, path, TRUE)
        r == ExtendLoop(BucketAt(e.data, e.path), object_names, allow_duplicates, 0)
    IN  IF e.exc # "none" THEN [exc |-> e.exc, ret |-> 0, data |-> e.data]
        ELSE [exc |-> "none", ret |-> r.inserted,
              data |-> SetAt(e.data, e.path, Bucket(r.items))]

\* the tail of ObjectDict.remove_object once the bucket is in hand: bucket.remove,
\* then _prune_empty_branch on the path as normalized
RemoveAt(d, npath, object_name) ==
    _prune_empty_branch(
        SetAt(d, npath, Bucket(RemoveFirst(BucketAt(d, npath), object_name))), npath)

NoArg == [str |-> FALSE, toks |-> <<"None">>]

\* remove_object that takes every occurrence of the name out of the bucket
remove_object_every(d, object_name, path) ==
    LET npath == IF path = NoArg THEN find_object(d, object_name)
                 ELSE _normalize_path(path).path
        Others(d2) == SelectSeq(BucketAt(d2, npath), LAMBDA x : x # object_name)
        e == _ensure_bucket(d, SeqPath(npath), FALSE)
    IN  IF (path = NoArg /\ npath = NoPath) \/ e.exc = "KeyError"
        THEN [exc |-> "none", ret |-> FALSE, data |-> d]
        ELSE IF e.exc # "none" THEN [exc |-> e.exc, ret |-> FALSE, data |-> d]
        ELSE IF ~InSeq(BucketAt(d, npath), object_name)
             THEN [exc |-> "none", ret |-> FALSE, data |-> d]
             ELSE [exc |-> "none", ret |-> TRUE,
                   data |-> _prune_empty_branch(SetAt(d, npath, Bucket(Others(d))),
                                                npath)]

\* ObjectDict.remove_object: [exc, ret, data]; path = NoArg stands for None
remove_object(d, object_name, path) ==
    IF path # NoArg
    THEN LET e == _ensure_bucket(d, path, FALSE) IN
         IF e.exc = "KeyError" THEN [exc |-> "none", ret |-> FALSE, data |-> e.data]
         ELSE IF e.exc # "none" THEN [exc |-> e.exc, ret |-> FALSE, data |-> e.data]
         ELSE IF ~InSeq(BucketAt(e.data, e.path), object_name)
              THEN [exc |-> "none", ret |-> FALSE, data |-> e.data]
              ELSE [exc |-> "none", ret |-> TRUE,
                    data |-> RemoveAt(e.data, e.path, object_name)]
    ELSE LET match == find_object(d, object_name) IN
         IF match = NoPath THEN [exc |-> "none", ret |-> FALSE, data |-> d]
         ELSE LET e == _ensure_bucket(d, SeqPath(match), FALSE) IN
              IF e.exc # "none" THEN [exc |-> e.exc, ret |-> FALSE, data |-> e.data]
              ELSE [exc |-> "none", ret |-> TRUE,
                    data |-> RemoveAt(e.data, e.path, object_name)]

\* move_object after `self.add_object(new_path, ...)`, whose outcome is `added`:
\* an exception of add_object leaves the method, else it returns True
MoveAdded(added) ==
    IF added.exc # "none" THEN [exc |-> added.exc, ret |-> FALSE, data |-> added.data]
    ELSE [exc |-> "none", ret |-> TRUE, data |-> added.data]

\* move_object after `removed = self.remove_object(...)`
MoveRemoved(removed, object_name, new_path, allow_duplicates) ==
    IF removed.exc # "none" THEN removed
    ELSE IF ~removed.ret THEN [exc |-> "none", ret |-> FALSE, data |-> removed.data]
    ELSE MoveAdded(add_object(removed.data, new_path, object_name, allow_duplicates))

\* move_object with the removal undone: the name is added at new_path and stays
\* where it was
move_object_copy(d, object_name, new_path, old_path, allow_duplicates) ==
    MoveRemoved([remove_object(d, object_name, old_path) EXCEPT !.data = d],
                object_name, new_path, allow_duplicates)

\* move_object that adds at new_path before it removes
move_object_add_first(d, object_name, new_path, old_path, allow_duplicates) ==
    LET added == add_object(d, new_path, object_name, allow_duplicates)
        removed == remove_object(added.data, object_name, old_path)
    IN  IF added.exc # "none" THEN [exc |-> added.exc, ret |-> FALSE, data |-> added.data]
        ELSE removed

\* ObjectDict.move_object: [exc, ret, data]; old_path = NoArg stands for None
move_object(d, object_name, new_path, old_path, allow_duplicates) ==
    MoveRemoved(remove_object(d, object_name, old_path), object_name, new_path,
                allow_duplicates)

(***************************************************************************)
(* ProcessGraph: _adjacency as a function from the steps to their sets of  *)
(* successors.                                                             *)
(***************************************************************************)
\* the step names of the model, in lexicographic order
StepNames == <<"Clear", "Dry", "Wipe">>

StepSet == {StepNames[i] : i \in 1..Len(StepNames)}

\* sorted(): the members of a set of step names in lexicographic order
sorted(S) == SelectSeq(StepNames, LAMBDA x : x \in S)

NoSteps == [x \in {} |-> {}]

\* ProcessGraph.steps
steps(a) == DOMAIN a

\* ProcessGraph.add_step
add_step(a, step) ==
    IF step \in DOMAIN a THEN a
    ELSE [x \in DOMAIN a \cup {step} |-> IF x = step THEN {} ELSE a[x]]

\* remove_step that pops the key and leaves the successor sets alone
remove_step_key_only(a, step) ==
    IF step \notin DOMAIN a THEN a
    ELSE [x \in DOMAIN a \ {step} |-> a[x]]

\* ProcessGraph.remove_step
remove_step(a, step) ==
    IF step \notin DOMAIN a THEN a
    ELSE [x \in DOMAIN a \ {step} |-> a[x] \ {step}]

\* `new_step != neighbors` of update_step compares a str with a set: in Python the
\* two are never equal
StrNotEqualSet(new_step, neighbors) == TRUE

\* update_step that drops old_step with its edges and adds new_step
update_step_dropping(a, old_step, new_step) ==
    IF old_step = new_step \/ old_step \notin DOMAIN a THEN a
    ELSE add_step([x \in DOMAIN a \ {old_step} |-> a[x] \ {old_step}], new_step)

\* update_step without its loop over the incoming edges
update_step_outgoing_only(a, old_step, new_step) ==
    IF old_step = new_step \/ old_step \notin DOMAIN a THEN a
    ELSE LET a1 == add_step(a, new_step)
         IN  [x \in DOMAIN a1 \ {old_step} |->
                IF x = new_step THEN a1[x] \cup (a1[old_step] \ {new_step})
                ELSE a1[x]]

\* ProcessGraph.update_step
update_step(a, old_step, new_step) ==
    IF old_step = new_step \/ old_step \notin DOMAIN a THEN a
    ELSE LET a1 == add_step(a, new_step)
             old_succ == a1[old_step]
             a2 == [x \in DOMAIN a1 \ {old_step} |->
                        IF x = new_step THEN a1[x] \cup (old_succ \ {new_step})
                        ELSE a1[x]]
         IN  [x \in DOMAIN a2 |->
                IF old_step \in a2[x]
                THEN IF StrNotEqualSet(new_step, a2[x])
                     THEN (a2[x] \ {old_step}) \cup {new_step}
                     ELSE a2[x] \ {old_step}
                ELSE a2[x]]

\* add_transition without add_step(end)
add_transition_dangling(a, start, end) ==
    LET a2 == add_step(a, start)
    IN  [a2 EXCEPT ![start] = @ \cup {end}]

\* ProcessGraph.add_transition
add_transition(a, start, end) ==
    LET a2 == add_step(add_step(a, start), end)
    IN  [a2 EXCEPT ![start] = @ \cup {end}]

\* ProcessGraph.remove_transition
remove_transition(a, start, end) ==
    IF start \in DOMAIN a THEN [a EXCEPT ![start] = @ \ {end}] ELSE a

\* ProcessGraph.successors
successors(a, step) == sorted(IF step \in DOMAIN a THEN a[step] ELSE {})

\* ProcessGraph.predecessors
predecessors(a, step) == sorted({node \in DOMAIN a : step \in a[node]})

(***************************************************************************)
(* PreferenceService.  The store is [data, graphs]; graphs is              *)
(* [names, adj]: the graph names in insertion order and each graph's       *)
(* adjacency.  A handler yields [exc, env, st].                            *)
(***************************************************************************)
NoGraphs == [names |-> <<>>, adj |-> [g \in {} |-> NoSteps]]

\* name in self._graphs
HasGraph(gs, name) == name \in DOMAIN gs.adj

\* self._graphs[name] = adjacency
PutGraph(gs, name, a) ==
    IF HasGraph(gs, name)
    THEN [gs EXCEPT !.adj = [g \in DOMAIN gs.adj |-> IF g = name THEN a ELSE gs.adj[g]]]
    ELSE [names |-> Append(gs.names, name),
          adj |-> [g \in DOMAIN gs.adj \cup {name} |-> IF g = name THEN a ELSE gs.adj[g]]]

\* self._graphs.pop(name, None)
PopGraph(gs, name) ==
    [names |-> SelectSeq(gs.names, LAMBDA g : g # name),
     adj |-> [g \in DOMAIN gs.adj \ {name} |-> gs.adj[g]]]

\* PreferenceService._success
_success(body) == [status |-> "success", message |-> "", body |-> body]

\* PreferenceService._error
_error(message) == [status |-> "error", message |-> message, body |-> <<>>]

RECURSIVE SnapshotEdges(_, _)
\* the two loops of _graph_snapshot over the sorted steps `todo`
SnapshotEdges(a, todo) ==
    IF todo = <<>> THEN <<>>
    ELSE LET succ == successors(a, Head(todo))
         IN  [i \in 1..Len(succ) |-> [from |-> Head(todo), to |-> succ[i]]]
                \o SnapshotEdges(a, Tail(todo))

\* PreferenceService._graph_snapshot
_graph_snapshot(name, a) ==
    [name |-> name, steps |-> sorted(steps(a)),
     transitions |-> SnapshotEdges(a, sorted(steps(a)))]

\* a handler that returns `env` and leaves the store as `st`
Returns(env, st) == [exc |-> "none", env |-> env, st |-> st]

\* a handler that raises `exc`, the store left as `st`
Raises(exc, st) == [exc |-> exc, env |-> _error("raised"), st |-> st]

\* PreferenceService.tool_list_process_graphs
tool_list_process_graphs(st) ==
    Returns(_success([i \in 1..Len(st.graphs.names) |->
                        _graph_snapshot(st.graphs.names[i],
                                        st.graphs.adj[st.graphs.names[i]])]), st)

\* tool_create_process_graph without the `name in self._graphs` test: a taken name
\* gets a fresh graph
tool_create_process_graph_overwrite(st, name) ==
    Returns(_success(_graph_snapshot(name, NoSteps)),
            [st EXCEPT !.graphs = PutGraph(st.graphs, name, NoSteps)])

\* PreferenceService.tool_create_process_graph
tool_create_process_graph(st, name) ==
    IF HasGraph(st.graphs, name) THEN Returns(_error("Graph already exists."), st)
    ELSE Returns(_success(_graph_snapshot(name, NoSteps)),
                 [st EXCEPT !.graphs = PutGraph(st.graphs, name, NoSteps)])

\* PreferenceService.tool_delete_process_graph
tool_delete_process_graph(st, name) ==
    IF ~HasGraph(st.graphs, name) THEN Returns(_error("Graph was not found."), st)
    ELSE Returns(_success("Graph deleted."),
                 [st EXCEPT !.graphs = PopGraph(st.graphs, name)])

\* the handlers returning the snapshot taken before the ProcessGraph method ran
OnGraph_stale(st, graph_name, a2) ==
    Returns(_success(_graph_snapshot(graph_name, st.graphs.adj[graph_name])),
            [st EXCEPT !.graphs = PutGraph(st.graphs, graph_name, a2)])

\* the shape shared by the four handlers that mutate one graph: look the graph up,
\* apply the ProcessGraph method, return the snapshot
OnGraph(st, graph_name, a2) ==
    Returns(_success(_graph_snapshot(graph_name, a2)),
            [st EXCEPT !.graphs = PutGraph(st.graphs, graph_name, a2)])

\* tool_add_process_step on a registry that makes a graph for a name it does not
\* know (a defaultdict lookup)
tool_add_process_step_implicit(st, graph_name, step) ==
    OnGraph(st, graph_name,
            add_step(IF HasGraph(st.graphs, graph_name) THEN st.graphs.adj[graph_name]
                     ELSE NoSteps, step))

\* PreferenceService.tool_add_process_step
tool_add_process_step(st, graph_name, step) ==
    IF ~HasGraph(st.graphs, graph_name) THEN Returns(_error("Graph was not found."), st)
    ELSE OnGraph(st, graph_name, add_step(st.graphs.adj[graph_name], step))

\* PreferenceService.tool_update_process_step
tool_update_process_step(st, graph_name, old_step, new_step) ==
    IF ~HasGraph(st.graphs, graph_name) THEN Returns(_error("Graph was not found."), st)
    ELSE OnGraph(st, graph_name, update_step(st.graphs.adj[graph_name], old_step, new_step))

\* PreferenceService.tool_add_process_transition
tool_add_process_transition(st, graph_name, start, end) ==
    IF ~HasGraph(st.graphs, graph_name) THEN Returns(_error("Graph was not found."), st)
    ELSE OnGraph(st, graph_name, add_transition(st.graphs.adj[graph_name], start, end))

\* PreferenceService.tool_remove_process_transition
tool_remove_process_transition(st, graph_name, start, end) ==
    IF ~HasGraph(st.graphs, graph_name) THEN Returns(_error("Graph was not found."), st)
    ELSE OnGraph(st, graph_name, remove_transition(st.graphs.adj[graph_name], start, end))

\* an argument left at its default None (also: the empty string, which the
\* handlers' truth tests treat alike)
None == "None"

\* PreferenceService.tool_list_object_locations
tool_list_object_locations(st, object_name) ==
    IF object_name # None
    THEN LET path == find_object(st.data, object_name) IN
         IF path = NoPath THEN Returns(_error("was not found."), st)
         ELSE Returns(_success(<<path>>), st)
    ELSE Returns(_success(list_objects(st.data)), st)

\* the shape shared by the three handlers that mutate the location index: r is
\* what the ObjectDict method did; an exception of the method leaves the handler
\* (no handler has a try), False gives _error(message), True _success(body)
OnObjects(st, r, message, body) ==
    LET st2 == [st EXCEPT !.data = r.data]
    IN  IF r.exc # "none" THEN Raises(r.exc, st2)
        ELSE IF ~r.ret THEN Returns(_error(message), st2)
        ELSE Returns(_success(body), st2)

\* PreferenceService.tool_add_object
tool_add_object(st, path, object_name, allow_duplicates) ==
    OnObjects(st, add_object(st.data, path, object_name, allow_duplicates),
              "already exists at path.", [object |-> object_name, path |-> path])

\* PreferenceService.tool_move_object
tool_move_object(st, object_name, new_path, old_path, allow_duplicates) ==
    OnObjects(st, move_object(st.data, object_name, new_path, old_path, allow_duplicates),
              "Unable to move.", [object |-> object_name, new_path |-> new_path])

\* PreferenceService.tool_delete_path
tool_delete_path(st, path) ==
    OnObjects(st, delete_path(st.data, path), "Path does not exist.", "Removed path.")

\* PreferenceService._FUNCTION_REGISTRY: per entry the handler method, the declared
\* name, and the handler's parameters (all of them, and those without a default)
_FUNCTION_REGISTRY == <<
    [method |-> "tool_list_process_graphs", name |-> "list_process_graphs",
     params |-> {}, required |-> {}],
    [method |-> "tool_create_process_graph", name |-> "create_process_graph",
     params |-> {"name"}, required |-> {"name"}],
    [method |-> "tool_delete_process_graph", name |-> "delete_process_graph",
     params |-> {"name"}, required |-> {"name"}],
    [method |-> "tool_add_process_step", name |-> "add_process_step",
     params |-> {"graph_name", "step"}, required |-> {"graph_name", "step"}],
    [method |-> "tool_update_process_step", name |-> "update_process_step",
     params |-> {"graph_name", "old_step", "new_step"},
     required |-> {"graph_name", "old_step", "new_step"}],
    [method |-> "tool_add_process_transition", name |-> "add_process_transition",
     params |-> {"graph_name", "start", "end"},
     required |-> {"graph_name", "start", "end"}],
    [method |-> "tool_remove_process_transition", name |-> "remove_process_transition",
     params |-> {"graph_name", "start", "end"},
     required |-> {"graph_name", "start", "end"}],
    [method |-> "tool_list_object_locations", name |-> "list_object_locations",
     params |-> {"object_name"}, required |-> {}],
    [method |-> "tool_add_object", name |-> "add_object",
     params |-> {"path", "object_name", "allow_duplicates"},
     required |-> {"path", "object_name"}],
    [method |-> "tool_move_object", name |-> "move_object",
     params |-> {"object_name", "new_path", "old_path", "allow_duplicates"},
     required |-> {"object_name", "new_path"}],
    [method |-> "tool_delete_path", name |-> "delete_path",
     params |-> {"path"}, required |-> {"path"}] >>

\* PreferenceService.function_declarations (their names)
function_declarations ==
    [i \in 1..Len(_FUNCTION_REGISTRY) |-> _FUNCTION_REGISTRY[i].name]

\* PreferenceService.toolkit (the methods the entries bind)
toolkit == [i \in 1..Len(_FUNCTION_REGISTRY) |-> _FUNCTION_REGISTRY[i].method]

\* get_tool_callable that looks the name up among the method names
get_tool_callable_by_method(function_name) ==
    LET hits == {i \in 1..Len(_FUNCTION_REGISTRY) :
                    _FUNCTION_REGISTRY[i].method = function_name}
    IN  IF hits = {} THEN [exc |-> "KeyError", spec |-> _FUNCTION_REGISTRY[1]]
        ELSE [exc |-> "none",
              spec |-> _FUNCTION_REGISTRY[CHOOSE i \in hits : \A j \in hits : i <= j]]

\* PreferenceService.get_tool_callable: [exc, spec], the first entry declared
\* under the name
get_tool_callable(function_name) ==
    LET hits == {i \in 1..Len(_FUNCTION_REGISTRY) :
                    _FUNCTION_REGISTRY[i].name = function_name}
    IN  IF hits = {} THEN [exc |-> "KeyError", spec |-> _FUNCTION_REGISTRY[1]]
        ELSE [exc |-> "none",
              spec |-> _FUNCTION_REGISTRY[CHOOSE i \in hits : \A j \in hits : i <= j]]

\* the value bound to a parameter: the keyword argument, else the default
Arg(kw, k, default) == IF k \in DOMAIN kw THEN kw[k] ELSE default

\* tool(**args) once the keywords fit the signature: the bound method called
CallMethod(method, kw, st) ==
    CASE method = "tool_list_process_graphs" -> tool_list_process_graphs(st)
      [] method = "tool_create_process_graph" -> tool_create_process_graph(st, kw["name"])
      [] method = "tool_delete_process_graph" -> tool_delete_process_graph(st, kw["name"])
      [] method = "tool_add_process_step" ->
            tool_add_process_step(st, kw["graph_name"], kw["step"])
      [] method = "tool_update_process_step" ->
            tool_update_process_step(st, kw["graph_name"], kw["old_step"], kw["new_step"])
      [] method = "tool_add_process_transition" ->
            tool_add_process_transition(st, kw["graph_name"], kw["start"], kw["end"])
      [] method = "tool_remove_process_transition" ->
            tool_remove_process_transition(st, kw["graph_name"], kw["start"], kw["end"])
      [] method = "tool_list_object_locations" ->
            tool_list_object_locations(st, Arg(kw, "object_name", None))
      [] method = "tool_add_object" ->
            tool_add_object(st, kw["path"], kw["object_name"],
                            Arg(kw, "allow_duplicates", FALSE))
      [] method = "tool_move_object" ->
            tool_move_object(st, kw["object_name"], kw["new_path"],
                             Arg(kw, "old_path", NoArg),
                             Arg(kw, "allow_duplicates", FALSE))
      [] method = "tool_delete_path" -> tool_delete_path(st, kw["path"])

\* tool(**args): Python raises TypeError for a keyword the method does not take
\* and for a parameter without default that is not given
CallTool(spec, kw, st) ==
    IF ~(DOMAIN kw \subseteq spec.params) \/ ~(spec.required \subseteq DOMAIN kw)
    THEN Raises("TypeError", st)
    ELSE CallMethod(spec.method, kw, st)

\* the try around `tool(**args)`, r being what the call did: `except TypeError`
\* and `except Exception` each return an error envelope
Caught(r) ==
    IF r.exc = "none" THEN r
    ELSE IF r.exc = "TypeError" THEN Returns(_error("Invalid arguments"), r.st)
    ELSE Returns(_error("Tool failed"), r.st)

\* the try with `except TypeError` alone
Caught_typeerror_only(r) ==
    IF r.exc = "none" THEN r
    ELSE IF r.exc = "TypeError" THEN Returns(_error("Invalid arguments"), r.st)
    ELSE r

\* _execute_tool_call without its last handler, `except Exception`
_execute_tool_call_typeerror_only(st, name, args) ==
    LET t == get_tool_callable(name) IN
    IF t.exc = "KeyError" THEN Returns(_error("Tool is not registered."), st)
    ELSE IF ~args.isdict
         THEN Returns(_error("Tool arguments must be an object."), st)
         ELSE Caught_typeerror_only(CallTool(t.spec, args.kw, st))

\* AudioLoop._execute_tool_call: [exc, env, st]; args is [isdict, kw]
_execute_tool_call(st, name, args) ==
    LET t == get_tool_callable(name) IN
    IF t.exc = "KeyError" THEN Returns(_error("Tool is not registered."), st)
    ELSE IF ~args.isdict
         THEN Returns(_error("Tool arguments must be an object."), st)
         ELSE Caught(CallTool(t.spec, args.kw, st))

(***************************************************************************)
(* Calls on the store.  SpecDict calls the ObjectDict methods and          *)
(* SpecTools the tool handlers, each from the seed layout, with arguments  *)
(* drawn from the sets below.                                              *)
(***************************************************************************)
MaxOps == 2

Keys == {"a", "b"}

Objects == {"x", "y"}

\* a dict node from its keys in insertion order and its children
Dict(keys, kids) == [t |-> "dict", keys |-> keys, kids |-> kids, items |-> <<>>]

\* DEFAULT_HOME_LAYOUT in miniature: nested mappings, buckets, one empty bucket
\* (Right_of_Sink) and one empty mapping (Guest/Drawers), no object stored twice
HomeLayout ==
    Dict(<<"a", "b">>,
         [k \in {"a", "b"} |->
            IF k = "a"
            THEN Dict(<<"a", "b">>,
                      [j \in {"a", "b"} |-> IF j = "a" THEN Bucket(<<"x">>)
                                            ELSE Bucket(<<>>)])
            ELSE Dict(<<"a", "b">>,
                      [j \in {"a", "b"} |->
                         IF j = "a" THEN EmptyDict
                         ELSE Dict(<<"a">>, [i \in {"a"} |-> Bucket(<<"y">>)])])])

\* the paths callers pass: a bucket, the empty bucket, a mapping, the empty
\* mapping, a bucket three levels down, fresh paths, a path through a bucket, a
\* top-level key, an empty sequence, and strings with doubled and stray separators
InPaths ==
    { SeqPath(<<"a", "a">>), SeqPath(<<"a", "b">>), SeqPath(<<"b">>),
      SeqPath(<<"b", "a">>), SeqPath(<<"b", "b", "a">>), SeqPath(<<"b", "a", "b">>),
      SeqPath(<<"a", "a", "b">>), SeqPath(<<>>),
      StrPath(<<"/", "a", "/", "/", "a">>), StrPath(<<"/">>) }

\* the old_path arguments of move_object: None, buckets, a path through a bucket,
\* an empty sequence
InOldPaths ==
    { NoArg, SeqPath(<<"a", "a">>), SeqPath(<<"a", "b">>), SeqPath(<<"b", "b", "a">>),
      SeqPath(<<"a", "a", "b">>), SeqPath(<<>>) }

InNameLists == { <<>>, <<"x", "y">>, <<"y", "y">> }

Store == [data |-> data, graphs |-> graphs]

InitStore ==
    /\ data = HomeLayout
    /\ graphs = NoGraphs
    /\ last = [op |-> "init", args |-> <<>>, exc |-> "none", ret |-> <<>>]
    /\ ops = 0

\* the callers of _handle_tool_call: the receiver task, and a second coroutine
\* that calls it at the same time
Invokers == {"receive_audio", "other"}

Idle == [pc |-> "idle", calls |-> <<>>, i |-> 0, responses |-> <<>>,
         thread |-> "none", result |-> _error("")]

InitBatch ==
    /\ handle = [c \in Invokers |-> Idle]
    /\ tool_lock = [holder |-> "free", waiters |-> <<>>]
    /\ sent_responses = <<>>
    /\ orphans = <<>>

NoInputs == [batches |-> 0, captures |-> 0, events |-> 0, lines |-> 0]

\* the coroutines run() may hand to the task group
Tasks == {"send_text", "send_realtime", "listen_audio", "get_frames", "get_screen",
          "receive_audio", "play_audio"}

NoChunk == [kind |-> "none", id |-> 0, epoch |-> 0]

\* AudioLoop.__init__: no session, no queues, no task, no device opened, and
\* self.audio_stream not assigned
DEFAULT_MODE == "camera"

VideoModes == {"camera", "screen", "none"}

InitLoop(modes) ==
    /\ run \in { [pc |-> "idle", session |-> "none", exit |-> "none", errors |-> {},
                  video_mode |-> m] : m \in modes }
    /\ task = [t \in Tasks |-> "none"]
    /\ held = [t \in Tasks |-> NoChunk]
    /\ out_queue = <<>>
    /\ audio_in_queue = <<>>
    /\ dev = [mic |-> "closed", audio_stream |-> FALSE, camera |-> "closed",
              speaker |-> "closed"]
    /\ log = [captured |-> 0, sent |-> {}, lost |-> {}, waited |-> {},
              enqueued |-> 0, drains |-> 0, drained |-> {}, written |-> <<>>,
              dropped |-> {}]

\* one call of an ObjectDict method, r its [exc, ret, data]
DictCall(op, args, r) ==
    /\ ops < MaxOps
    /\ ops' = ops + 1
    /\ data' = r.data
    /\ last' = [op |-> op, args |-> args, exc |-> r.exc, ret |-> r.ret]
    /\ UNCHANGED <<graphs, batchVars, left, loopVars>>

DoAddObject ==
    \E path \in InPaths, object_name \in Objects, allow_duplicates \in BOOLEAN :
        DictCall("add_object",
                 [path |-> path, object_name |-> object_name,
                  allow_duplicates |-> allow_duplicates],
                 add_object(data, path, object_name, allow_duplicates))

DoExtendObjects ==
    \E path \in InPaths, object_names \in InNameLists, allow_duplicates \in BOOLEAN :
        DictCall("extend_objects",
                 [path |-> path, object_names |-> object_names,
                  allow_duplicates |-> allow_duplicates],
                 extend_objects(data, path, object_names, allow_duplicates))

DoRemoveObject ==
    \E object_name \in Objects, path \in InPaths \cup {NoArg} :
        DictCall("remove_object", [object_name |-> object_name, path |-> path],
                 remove_object(data, object_name, path))

DoMoveObject ==
    \E object_name \in Objects, new_path \in InPaths, old_path \in InOldPaths,
       allow_duplicates \in BOOLEAN :
        DictCall("move_object",
                 [object_name |-> object_name, new_path |-> new_path,
                  old_path |-> old_path, allow_duplicates |-> allow_duplicates],
                 move_object(data, object_name, new_path, old_path, allow_duplicates))

DoDeletePath ==
    \E path \in InPaths :
        DictCall("delete_path", [path |-> path], delete_path(data, path))

NextDict ==
    \/ DoAddObject
    \/ DoExtendObjects
    \/ DoRemoveObject
    \/ DoMoveObject
    \/ DoDeletePath

\* what a caller may do to a structure it was handed: append to one of its lists,
\* pop a key of one of its mappings, at any depth
Mutations(tree) ==
    LET at == NodePaths(tree, <<>>) IN
    {[kind |-> "append", path |-> q, arg |-> "peeler"] :
        q \in {q \in at : IsList(WalkFrom(tree, q).node)}}
    \cup UNION {{[kind |-> "pop", path |-> q, arg |-> k] :
                    k \in DOMAIN WalkFrom(tree, q).node.kids} :
                q \in {q \in at : IsDict(WalkFrom(tree, q).node)}}

\* list.append / dict.pop on the node at m.path
Mutate(tree, m) ==
    LET node == WalkFrom(tree, m.path).node IN
    SetAt(tree, m.path,
          IF m.kind = "append" THEN Bucket(Append(node.items, m.arg))
          ELSE DictPop(node, m.arg))

\* snapshot = object_dict.as_dict()
DoAsDict ==
    /\ ops < MaxOps
    /\ ops' = ops + 1
    /\ last' = [op |-> "as_dict", args |-> <<>>, exc |-> "none", ret |-> as_dict(data)]
    /\ UNCHANGED <<data, graphs, batchVars, left, loopVars>>

\* the caller mutates the structure as_dict returned (and keeps it); where the
\* mutated node is one the index holds too, the index sees the mutation
DoMutateSnapshot ==
    /\ ops < MaxOps
    /\ last.op \in {"as_dict", "mutate"}
    /\ \E m \in Mutations(last.ret.tree) :
          /\ last' = [op |-> "mutate", args |-> m, exc |-> "none",
                      ret |-> Handle(Mutate(last.ret.tree, m), last.ret.shared)]
          /\ data' = IF m.path \in last.ret.shared THEN Mutate(data, m) ELSE data
    /\ ops' = ops + 1
    /\ UNCHANGED <<graphs, batchVars, left, loopVars>>

NextSnapshot ==
    \/ DoAddObject
    \/ DoDeletePath
    \/ DoAsDict
    \/ DoMutateSnapshot

\* every adjacency over the step names of the model: some of them are steps, each
\* with a set of successors among the steps (add_step and add_transition build
\* each of them, self-loops included)
Adjacencies == UNION {[K -> SUBSET K] : K \in SUBSET StepSet}

MaxGraphOps == 2

\* the ProcessGraph under test
Adj == graphs.adj["g"]

\* one call of a ProcessGraph method, a2 the adjacency it leaves
GraphCall(op, args, a2) ==
    /\ ops < MaxGraphOps
    /\ ops' = ops + 1
    /\ graphs' = PutGraph(graphs, "g", a2)
    /\ last' = [op |-> op, args |-> args, exc |-> "none", ret |-> <<>>]
    /\ UNCHANGED <<data, batchVars, left, loopVars>>

DoAddStep ==
    \E step \in StepSet :
        GraphCall("add_step", [step |-> step], add_step(Adj, step))

DoRemoveStep ==
    \E step \in StepSet :
        GraphCall("remove_step", [step |-> step], remove_step(Adj, step))

DoUpdateStep ==
    \E old_step \in StepSet, new_step \in StepSet :
        GraphCall("update_step", [old_step |-> old_step, new_step |-> new_step],
                  update_step(Adj, old_step, new_step))

DoAddTransition ==
    \E start \in StepSet, end \in StepSet :
        GraphCall("add_transition", [start |-> start, end |-> end],
                  add_transition(Adj, start, end))

DoRemoveTransition ==
    \E start \in StepSet, end \in StepSet :
        GraphCall("remove_transition", [start |-> start, end |-> end],
                  remove_transition(Adj, start, end))

NextGraph ==
    \/ DoAddStep
    \/ DoRemoveStep
    \/ DoUpdateStep
    \/ DoAddTransition
    \/ DoRemoveTransition

\* one ProcessGraph, in any of the states its methods can build
InitGraph ==
    /\ data = HomeLayout
    /\ graphs \in {PutGraph(NoGraphs, "g", a) : a \in Adjacencies}
    /\ last = [op |-> "init", args |-> <<>>, exc |-> "none", ret |-> <<>>]
    /\ ops = 0
    /\ InitBatch
    /\ InitLoop({DEFAULT_MODE})
    /\ left = NoInputs

SpecGraph == InitGraph /\ [][NextGraph]_vars

\* the store as the service builds it; no session is running
InitCalls ==
    /\ InitStore
    /\ InitBatch
    /\ InitLoop({DEFAULT_MODE})
    /\ left = NoInputs

SpecDict == InitCalls /\ [][NextDict]_vars

SpecSnapshot == InitCalls /\ [][NextSnapshot]_vars

(***************************************************************************)
(* Tool calls: a function call names a tool and carries args, a dict of    *)
(* keyword arguments or something that is no dict.                         *)
(***************************************************************************)
GraphNames == {"g", "h"}

NoKw == [k \in {} |-> 0]

\* args values: a dict of keywords, a non-empty value that is no dict, and a
\* value Python takes for false (None, an empty list); falsy is bool(args) = False
Obj(kw) == [isdict |-> TRUE, falsy |-> kw = NoKw, kw |-> kw]

NotObj == [isdict |-> FALSE, falsy |-> FALSE, kw |-> NoKw]

FalsyArgs == [isdict |-> FALSE, falsy |-> TRUE, kw |-> NoKw]

ToolCall(name, args) == [name |-> name, args |-> args]

\* calls that give every required parameter and nothing the handler does not take
GraphCalls ==
    {ToolCall("list_process_graphs", Obj(NoKw))}
    \cup {ToolCall(n, Obj([name |-> g])) :
            n \in {"create_process_graph", "delete_process_graph"}, g \in GraphNames}
    \cup {ToolCall("add_process_step", Obj([graph_name |-> g, step |-> s])) :
            g \in GraphNames, s \in StepSet}
    \cup {ToolCall("update_process_step",
                   Obj([graph_name |-> g, old_step |-> s, new_step |-> t])) :
            g \in GraphNames, s \in StepSet, t \in StepSet}
    \cup {ToolCall(n, Obj([graph_name |-> g, start |-> s, end |-> t])) :
            n \in {"add_process_transition", "remove_process_transition"},
            g \in GraphNames, s \in StepSet, t \in StepSet}

ObjectCalls ==
    {ToolCall("list_object_locations", Obj(NoKw))}
    \cup {ToolCall("list_object_locations", Obj([object_name |-> o])) :
            o \in Objects \cup {"z"}}
    \cup {ToolCall("add_object", Obj([path |-> p, object_name |-> o])) :
            p \in InPaths, o \in Objects}
    \cup {ToolCall("add_object",
                   Obj([path |-> p, object_name |-> o, allow_duplicates |-> TRUE])) :
            p \in InPaths, o \in Objects}
    \cup {ToolCall("move_object", Obj([object_name |-> o, new_path |-> p])) :
            o \in Objects \cup {"z"}, p \in InPaths}
    \cup {ToolCall("move_object",
                   Obj([object_name |-> o, new_path |-> p, old_path |-> q])) :
            o \in {"x"}, p \in InPaths, q \in InOldPaths \ {NoArg}}
    \cup {ToolCall("delete_path", Obj([path |-> p])) : p \in InPaths}

WellFormedCalls == GraphCalls \cup ObjectCalls

\* calls _execute_tool_call rejects before or while binding the arguments: a name
\* that is not declared, args that are no dict, a required parameter left out, a
\* keyword the handler does not take
MalformedCalls ==
    { ToolCall("no_such_tool", Obj(NoKw)),
      ToolCall("add_object", NotObj),
      ToolCall("add_object", Obj([object_name |-> "x"])),
      ToolCall("create_process_graph", Obj([name |-> "g", extra |-> "x"])),
      ToolCall("delete_path", Obj(NoKw)) }

\* one call on the service, r its [exc, env, st]
ToolStep(op, call, r) ==
    /\ ops < MaxOps
    /\ ops' = ops + 1
    /\ data' = r.st.data
    /\ graphs' = r.st.graphs
    /\ last' = [op |-> op, args |-> call, exc |-> r.exc, ret |-> r.env]
    /\ UNCHANGED <<batchVars, left, loopVars>>

\* a tool handler called directly with its keyword arguments
DoHandler ==
    \E call \in WellFormedCalls :
        ToolStep("handler", call,
                 CallTool(get_tool_callable(call.name).spec, call.args.kw, Store))

\* AudioLoop._execute_tool_call on one function call
DoExecute ==
    \E call \in WellFormedCalls \cup MalformedCalls :
        ToolStep("execute", call, _execute_tool_call(Store, call.name, call.args))

MaxGraphCalls == 3

\* the calls of the graph handlers on the graph g, and those that put a second
\* graph next to it
GraphSessionCalls ==
    {call \in GraphCalls :
        \/ call.name = "list_process_graphs"
        \/ "name" \in DOMAIN call.args.kw /\ call.args.kw.name = "g"
        \/ "graph_name" \in DOMAIN call.args.kw /\ call.args.kw.graph_name = "g"}
    \cup { ToolCall("create_process_graph", Obj([name |-> "h"])),
           ToolCall("add_process_transition",
                    Obj([graph_name |-> "h", start |-> "Dry", end |-> "Clear"])) }

\* one call of a graph handler in a session of up to MaxGraphCalls calls
GraphToolStep(call, r) ==
    /\ ops < MaxGraphCalls
    /\ ops' = ops + 1
    /\ data' = r.st.data
    /\ graphs' = r.st.graphs
    /\ last' = [op |-> "handler", args |-> call, exc |-> r.exc, ret |-> r.env]
    /\ UNCHANGED <<batchVars, left, loopVars>>

\* a graph handler called directly with its keyword arguments
DoGraphHandler ==
    \E call \in GraphSessionCalls :
        GraphToolStep(call,
                      CallTool(get_tool_callable(call.name).spec, call.args.kw, Store))

SpecGraphTools == InitCalls /\ [][DoGraphHandler]_vars

\* an index as ObjectDict(initial) builds it from a layout without empty nodes:
\* the home layout without its empty bucket and its empty mapping
CleanLayout ==
    Dict(<<"a", "b">>,
         [k \in {"a", "b"} |->
            IF k = "a" THEN Dict(<<"a">>, [j \in {"a"} |-> Bucket(<<"x">>)])
            ELSE Dict(<<"b">>,
                      [j \in {"b"} |-> Dict(<<"a">>, [i \in {"a"} |-> Bucket(<<"y">>)])])])

\* ObjectDict() and ObjectDict(layout): no empty bucket, no empty mapping but the
\* root
InitClean ==
    /\ data \in {EmptyDict, CleanLayout}
    /\ graphs = NoGraphs
    /\ last = [op |-> "init", args |-> <<>>, exc |-> "none", ret |-> <<>>]
    /\ ops = 0
    /\ InitBatch
    /\ InitLoop({DEFAULT_MODE})
    /\ left = NoInputs

SpecClean == InitClean /\ [][NextDict]_vars

NextTools ==
    \/ DoHandler
    \/ DoExecute

SpecTools == InitCalls /\ [][NextTools]_vars

(***************************************************************************)
(* AudioLoop._handle_tool_call.  A caller c is "idle" (not in the method), *)
(* in "lock" (waiting in `async with self._tool_lock`), in "exec"          *)
(* (awaiting asyncio.to_thread for call i of the batch) or in "send"       *)
(* (awaiting session.send_tool_response).                                  *)
(***************************************************************************)
FunctionCall(id, name, args) == [id |-> id, name |-> name, args |-> args]

\* the first index from `from` on whose call passes `if not name or call_id is
\* None: continue`; 0 when the loop runs out
NextValid(calls, from) ==
    LET ok == {j \in from..Len(calls) : calls[j].name # None /\ calls[j].id # None}
    IN  IF ok = {} THEN 0 ELSE CHOOSE j \in ok : \A m \in ok : j <= m

\* `call.args or {}`
ArgsOrEmpty(args) == IF args.falsy THEN Obj(NoKw) ELSE args

\* asyncio.Lock.release: the lock goes to the first waiter
Release(lk) ==
    IF lk.waiters = <<>> THEN [holder |-> "free", waiters |-> <<>>]
    ELSE [holder |-> Head(lk.waiters), waiters |-> Tail(lk.waiters)]

\* the `for call in function_calls` loop from index `from` up to its next await,
\* for a caller whose record is h and with the lock as lk: the next call that
\* has a name and an id goes to a worker thread; after the last one the responses
\* are sent if there are any, else the lock is released and the method returns
Continue(c, h, from, lk) ==
    LET j == NextValid(h.calls, from) IN
    IF j # 0
    THEN /\ handle' = [handle EXCEPT ![c] = [h EXCEPT !.pc = "exec", !.i = j,
                                                      !.thread = "queued"]]
         /\ tool_lock' = lk
    ELSE IF h.responses # <<>>
         THEN /\ handle' = [handle EXCEPT ![c] = [h EXCEPT !.pc = "send",
                                                           !.thread = "none"]]
              /\ tool_lock' = lk
         ELSE /\ handle' = [handle EXCEPT ![c] = Idle]
              /\ tool_lock' = Release(lk)

\* `async with self._tool_lock` entered with the lock never looked at or taken
AcquireToolLock_unlocked(c, calls) ==
    Continue(c, [Idle EXCEPT !.calls = calls], 1, tool_lock)

\* `async with self._tool_lock`: a free lock with nobody waiting is taken at once,
\* else the caller queues up behind the waiters
AcquireToolLock(c, calls) ==
    IF tool_lock.holder = "free" /\ tool_lock.waiters = <<>>
    THEN Continue(c, [Idle EXCEPT !.calls = calls], 1, [tool_lock EXCEPT !.holder = c])
    ELSE /\ handle' = [handle EXCEPT ![c] = [Idle EXCEPT !.pc = "lock", !.calls = calls]]
         /\ tool_lock' = [tool_lock EXCEPT !.waiters = Append(@, c)]

\* _handle_tool_call entered with the function calls of one tool-call event
HandleToolCall(c, calls) ==
    /\ handle[c].pc = "idle"
    /\ IF calls = <<>> THEN UNCHANGED <<handle, tool_lock>>
       ELSE AcquireToolLock(c, calls)
    /\ UNCHANGED <<storeVars, sent_responses, orphans>>

\* the waiter the lock was released to resumes inside the `async with`
LockGranted(c) ==
    /\ handle[c].pc = "lock"
    /\ tool_lock.holder = c
    /\ Continue(c, handle[c], 1, tool_lock)
    /\ UNCHANGED <<storeVars, sent_responses, orphans>>

\* a worker thread has run self._execute_tool_call on the store, r is what it did
Executed(r) ==
    /\ data' = r.st.data
    /\ graphs' = r.st.graphs
    /\ UNCHANGED <<last, ops>>

\* the handler run of `call` on a worker thread
RunOnThread(call) == _execute_tool_call(Store, call.name, ArgsOrEmpty(call.args))

\* the tool_result the caller c is handed when it resumes
ThreadResult(c, r) ==
    handle' = [handle EXCEPT ![c].thread = "finished", ![c].result = r.env]

\* the worker thread runs self._execute_tool_call(name, args) for call i
ThreadRun(c) ==
    /\ handle[c].pc = "exec"
    /\ handle[c].thread = "queued"
    /\ Executed(RunOnThread(handle[c].calls[handle[c].i]))
    /\ ThreadResult(c, RunOnThread(handle[c].calls[handle[c].i]))
    /\ UNCHANGED <<tool_lock, sent_responses, orphans>>

\* types.FunctionResponse(name, response, id); k is the call's place in the batch
FunctionResponse(call, result, k) ==
    [name |-> call.name, id |-> call.id, response |-> result, k |-> k]

\* the caller resumes with tool_result, appends the response and goes round the loop
HandleResume(c) ==
    /\ handle[c].pc = "exec"
    /\ handle[c].thread = "finished"
    /\ LET h == handle[c]
           h2 == [h EXCEPT !.responses =
                     Append(@, FunctionResponse(h.calls[h.i], h.result, h.i))]
       IN  Continue(c, h2, h.i + 1, tool_lock)
    /\ UNCHANGED <<storeVars, sent_responses, orphans>>

\* session.send_tool_response returns; leaving the `async with` releases the lock
SendResponses(c) ==
    /\ handle[c].pc = "send"
    /\ sent_responses' = Append(sent_responses, handle[c].responses)
    /\ handle' = [handle EXCEPT ![c] = Idle]
    /\ tool_lock' = Release(tool_lock)
    /\ UNCHANGED <<storeVars, orphans>>

(***************************************************************************)
(* SpecBatch: tool-call events handed to _handle_tool_call by two callers  *)
(* at once.                                                                *)
(***************************************************************************)
MaxBatches == 2

PathAB == SeqPath(<<"a", "b">>)

PathB == SeqPath(<<"b">>)

\* the function calls of the tool-call events: a call that succeeds followed by
\* one that fails after it has begun, a conflict in the middle of a batch, calls
\* without id or name, an undeclared tool, a batch with no calls
InBatches ==
    { << FunctionCall("1", "add_object", Obj([path |-> PathAB, object_name |-> "y"])),
         FunctionCall("2", "move_object", Obj([object_name |-> "y", new_path |-> PathB])) >>,
      << FunctionCall("1", "create_process_graph", Obj([name |-> "g"])),
         FunctionCall("2", "create_process_graph", Obj([name |-> "g"])),
         FunctionCall("3", "add_process_step", Obj([graph_name |-> "g", step |-> "Clear"])) >>,
      << FunctionCall(None, "delete_path", Obj([path |-> PathAB])),
         FunctionCall("2", "no_such_tool", FalsyArgs),
         FunctionCall("3", "list_process_graphs", NotObj) >>,
      << FunctionCall("1", None, FalsyArgs) >>,
      << >> }

Invoke(c) ==
    \E calls \in InBatches :
        /\ left.batches > 0
        /\ left' = [left EXCEPT !.batches = @ - 1]
        /\ HandleToolCall(c, calls)
        /\ UNCHANGED loopVars

BatchStep(c) ==
    /\ \/ LockGranted(c)
       \/ ThreadRun(c)
       \/ HandleResume(c)
       \/ SendResponses(c)
    /\ UNCHANGED <<left, loopVars>>

NextBatch == \E c \in Invokers : Invoke(c) \/ BatchStep(c)

InitBatches ==
    /\ InitStore
    /\ InitBatch
    /\ InitLoop({DEFAULT_MODE})
    /\ left = [NoInputs EXCEPT !.batches = MaxBatches]

SpecBatch == InitBatches /\ [][NextBatch]_vars

\* the caller is between acquiring and releasing the tool lock
InBatch(c) == handle[c].pc \in {"exec", "send"}

\* C1: at most one batch is between acquiring the tool lock and releasing it (the
\* counter of such batches never exceeds 1), and it is the holder of the lock; so
\* the handler runs of two batches never interleave.
C1_OneBatchAtATime ==
    /\ Cardinality({c \in Invokers : InBatch(c)}) <= 1
    /\ \A c \in Invokers : InBatch(c) => tool_lock.holder = c

\* C1 witness: one batch has run a handler while a second batch waits for the lock
C1_Witness ==
    \E c, d \in Invokers :
        /\ handle[c].pc = "exec"
        /\ handle[c].thread = "finished"
        /\ handle[d].pc = "lock"

\* what a successful call leaves in the store
Effect(call, st) ==
    CASE call.name = "add_object" ->
            LET w == _walk(st.data, _normalize_path(call.args.kw["path"]).path)
            IN  w.exc = "none" /\ IsList(w.node)
                    /\ InSeq(w.node.items, call.args.kw["object_name"])
      [] call.name = "create_process_graph" -> HasGraph(st.graphs, call.args.kw["name"])
      [] call.name = "add_process_step" ->
            /\ HasGraph(st.graphs, call.args.kw["graph_name"])
            /\ call.args.kw["step"] \in steps(st.graphs.adj[call.args.kw["graph_name"]])
      [] OTHER -> TRUE

\* C2 (its second sentence): right after a call of a batch has ended in an error
\* envelope, what each earlier successful call of the batch did to the store is
\* still there.
C2_EarlierMutationsKept ==
    \A c \in Invokers :
        (handle[c].pc = "exec" /\ handle[c].thread = "finished"
            /\ handle[c].result.status = "error")
        => \A n \in 1..Len(handle[c].responses) :
              handle[c].responses[n].response.status = "success"
                => Effect(handle[c].calls[handle[c].responses[n].k], Store)

(***************************************************************************)
(* AudioLoop.run and the tasks of its group.  A task is "none" (not        *)
(* created), suspended at an await named after what it waits for, or has   *)
(* ended: "done" (returned), "failed" (raised) or "cancelled".             *)
(***************************************************************************)
OutQueueMax == 5

Ended == {"none", "done", "failed", "cancelled"}

Live(t) == task[t] \notin Ended

\* TaskGroup.__aexit__ waits until no task of the group is left
TasksUnwound_some == \E t \in Tasks : ~Live(t)

TasksUnwound == \A t \in Tasks : ~Live(t)

\* asyncio.Queue.full() for out_queue; audio_in_queue has no maxsize
QueueFull_never(q) == FALSE

QueueFull(q) == Len(q) >= OutQueueMax

\* asyncio.Queue.get_nowait on a LIFO queue
QueueGet_lifo(q) == [item |-> q[Len(q)], rest |-> SubSeq(q, 1, Len(q) - 1)]

\* asyncio.Queue.get_nowait: the oldest item
QueueGet(q) == [item |-> Head(q), rest |-> Tail(q)]

\* a drain that takes one item off the queue
DrainQueue_one(q) == IF q = <<>> THEN q ELSE Tail(q)

\* `while not self.audio_in_queue.empty(): self.audio_in_queue.get_nowait()`
DrainQueue(q) == <<>>

Ids(q) == {q[n].id : n \in 1..Len(q)}

\* client.aio.live.connect(...) entered: the handshake is done
Connect ==
    /\ run.pc = "idle"
    /\ run' = [run EXCEPT !.pc = "connected", !.session = "open"]
    /\ UNCHANGED <<storeVars, batchVars, left, task, held, out_queue, audio_in_queue,
                   dev, log>>

\* the handshake raises: nothing in run() catches it
ConnectFails ==
    /\ run.pc = "idle"
    /\ run' = [run EXCEPT !.pc = "raised", !.exit = "connect"]
    /\ UNCHANGED <<storeVars, batchVars, left, task, held, out_queue, audio_in_queue,
                   dev, log>>

\* the body of the `async with` up to `await send_text_task`: the queues are made,
\* the tasks created, and each task runs to its first await
Spawn ==
    /\ run.pc = "connected"
    /\ run' = [run EXCEPT !.pc = "streaming"]
    /\ out_queue' = <<>>
    /\ audio_in_queue' = <<>>
    /\ task' = [t \in Tasks |->
                 CASE t = "send_text" -> "input"
                   [] t = "send_realtime" -> "get"
                   [] t = "listen_audio" -> "opening"
                   [] t = "get_frames" ->
                        IF run.video_mode = "camera" THEN "opening" ELSE "none"
                   [] t = "get_screen" ->
                        IF run.video_mode = "screen" THEN "grabbing" ELSE "none"
                   [] t = "receive_audio" -> "recv"
                   [] t = "play_audio" -> "opening"]
    /\ UNCHANGED <<storeVars, batchVars, left, held, dev, log>>

Streaming(t, at) == run.pc = "streaming" /\ task[t] = at

\* TaskGroup._abort: every task still running is cancelled and run() waits for them
Abort(why, failed) ==
    run' = [run EXCEPT !.pc = "closing",
                       !.exit = IF @ = "none" THEN why ELSE @,
                       !.errors = @ \cup failed]

\* `await self.out_queue.put(chunk)` by task t, which goes on to `next` once the
\* chunk is in the queue; lg is the log as the step leaves it
Put(t, chunk, next, lg) ==
    IF QueueFull(out_queue)
    THEN /\ task' = [task EXCEPT ![t] = "putting"]
         /\ held' = [held EXCEPT ![t] = chunk]
         /\ log' = [lg EXCEPT !.waited = @ \cup {chunk.id}]
         /\ UNCHANGED out_queue
    ELSE /\ out_queue' = Append(out_queue, chunk)
         /\ task' = [task EXCEPT ![t] = next]
         /\ held' = [held EXCEPT ![t] = NoChunk]
         /\ log' = lg

\* a suspended putter is woken once the queue has room and puts its chunk
PutResume(t) ==
    /\ Streaming(t, "putting")
    /\ ~QueueFull(out_queue)
    /\ out_queue' = Append(out_queue, held[t])
    /\ task' = [task EXCEPT ![t] = IF t = "listen_audio" THEN "reading" ELSE "grabbing"]
    /\ held' = [held EXCEPT ![t] = NoChunk]
    /\ UNCHANGED <<storeVars, batchVars, left, run, audio_in_queue, dev, log>>

\* listen_audio: pya.open returned, self.audio_stream is assigned, the first read starts
ListenOpened ==
    /\ Streaming("listen_audio", "opening")
    /\ dev' = [dev EXCEPT !.mic = "open", !.audio_stream = TRUE]
    /\ task' = [task EXCEPT !["listen_audio"] = "reading"]
    /\ UNCHANGED <<storeVars, batchVars, left, run, held, out_queue, audio_in_queue, log>>

\* listen_audio: audio_stream.read returned a chunk, which is put on out_queue
ListenRead ==
    /\ Streaming("listen_audio", "reading")
    /\ left.captures > 0
    /\ left' = [left EXCEPT !.captures = @ - 1]
    /\ Put("listen_audio", [kind |-> "audio", id |-> log.captured + 1, epoch |-> 0],
           "reading", [log EXCEPT !.captured = @ + 1])
    /\ UNCHANGED <<storeVars, batchVars, run, audio_in_queue, dev>>

\* get_frames: cv2.VideoCapture returned and cap.isOpened()
FramesOpened ==
    /\ Streaming("get_frames", "opening")
    /\ dev' = [dev EXCEPT !.camera = "open"]
    /\ task' = [task EXCEPT !["get_frames"] = "grabbing"]
    /\ UNCHANGED <<storeVars, batchVars, left, run, held, out_queue, audio_in_queue, log>>

\* get_frames, get_screen: a frame was grabbed; the task sleeps with it in hand
Grab(t) ==
    /\ t \in {"get_frames", "get_screen"}
    /\ Streaming(t, "grabbing")
    /\ left.captures > 0
    /\ left' = [left EXCEPT !.captures = @ - 1]
    /\ held' = [held EXCEPT ![t] = [kind |-> "media", id |-> log.captured + 1, epoch |-> 0]]
    /\ log' = [log EXCEPT !.captured = @ + 1]
    /\ task' = [task EXCEPT ![t] = "sleeping"]
    /\ UNCHANGED <<storeVars, batchVars, run, out_queue, audio_in_queue, dev>>

\* get_frames, get_screen: asyncio.sleep(1.0) is over, the frame is put on out_queue
SleepDone(t) ==
    /\ Streaming(t, "sleeping")
    /\ Put(t, held[t], "grabbing", log)
    /\ UNCHANGED <<storeVars, batchVars, left, run, audio_in_queue, dev>>

\* get_frames: _get_frame returned None; the loop ends and cap.release() runs
FramesEnd ==
    /\ Streaming("get_frames", "grabbing")
    /\ dev' = [dev EXCEPT !.camera = "closed"]
    /\ task' = [task EXCEPT !["get_frames"] = "done"]
    /\ UNCHANGED <<storeVars, batchVars, left, run, held, out_queue, audio_in_queue, log>>

\* send_realtime reading the oldest envelope without taking it off the queue
SenderGet_peek ==
    /\ Streaming("send_realtime", "get")
    /\ out_queue # <<>>
    /\ held' = [held EXCEPT !["send_realtime"] = Head(out_queue)]
    /\ task' = [task EXCEPT !["send_realtime"] = "sending"]
    /\ UNCHANGED <<storeVars, batchVars, left, run, out_queue, audio_in_queue, dev, log>>

\* send_realtime: out_queue.get() returns the oldest envelope
SenderGet ==
    /\ Streaming("send_realtime", "get")
    /\ out_queue # <<>>
    /\ out_queue' = QueueGet(out_queue).rest
    /\ held' = [held EXCEPT !["send_realtime"] = QueueGet(out_queue).item]
    /\ task' = [task EXCEPT !["send_realtime"] = "sending"]
    /\ UNCHANGED <<storeVars, batchVars, left, run, audio_in_queue, dev, log>>

\* send_realtime: session.send_realtime_input returned
SenderSent ==
    /\ Streaming("send_realtime", "sending")
    /\ log' = [log EXCEPT !.sent = @ \cup {held["send_realtime"].id}]
    /\ held' = [held EXCEPT !["send_realtime"] = NoChunk]
    /\ task' = [task EXCEPT !["send_realtime"] = "get"]
    /\ UNCHANGED <<storeVars, batchVars, left, run, out_queue, audio_in_queue, dev>>

\* send_text: input() returned a line that is not the exit sentinel
TextLine ==
    /\ Streaming("send_text", "input")
    /\ left.lines > 0
    /\ left' = [left EXCEPT !.lines = @ - 1]
    /\ task' = [task EXCEPT !["send_text"] = "sending"]
    /\ UNCHANGED <<storeVars, batchVars, run, held, out_queue, audio_in_queue, dev, log>>

\* send_text: session.send_client_content returned
TextSent ==
    /\ Streaming("send_text", "sending")
    /\ task' = [task EXCEPT !["send_text"] = "input"]
    /\ UNCHANGED <<storeVars, batchVars, left, run, held, out_queue, audio_in_queue,
                   dev, log>>

\* send_text: the user typed "q"; the task returns and run() raises
\* CancelledError("User requested exit") inside the task group
TextQuit ==
    /\ Streaming("send_text", "input")
    /\ task' = [task EXCEPT !["send_text"] = "done"]
    /\ Abort("user", {})
    /\ UNCHANGED <<storeVars, batchVars, left, held, out_queue, audio_in_queue, dev, log>>

\* the receiver is at `async for response in turn`, not inside _handle_tool_call
Receiving ==
    /\ Streaming("receive_audio", "recv")
    /\ handle["receive_audio"].pc = "idle"

\* receive_audio: a response with data; put_nowait on audio_in_queue
RecvAudio ==
    /\ Receiving
    /\ left.events > 0
    /\ left' = [left EXCEPT !.events = @ - 1]
    /\ audio_in_queue' = Append(audio_in_queue,
            [kind |-> "pcm", id |-> log.enqueued + 1, epoch |-> log.drains])
    /\ log' = [log EXCEPT !.enqueued = @ + 1]
    /\ UNCHANGED <<storeVars, batchVars, run, task, held, out_queue, dev>>

\* receive_audio: a response with text only; it is printed
RecvText ==
    /\ Receiving
    /\ left.events > 0
    /\ left' = [left EXCEPT !.events = @ - 1]
    /\ UNCHANGED <<storeVars, batchVars, loopVars>>

\* receive_audio: the turn is over; audio_in_queue is emptied before the next await
RecvTurnComplete ==
    /\ Receiving
    /\ left.events > 0
    /\ left' = [left EXCEPT !.events = @ - 1]
    /\ audio_in_queue' = DrainQueue(audio_in_queue)
    /\ log' = [log EXCEPT !.drains = @ + 1,
                          !.drained = @ \cup (Ids(audio_in_queue) \ Ids(audio_in_queue'))]
    /\ UNCHANGED <<storeVars, batchVars, run, task, held, out_queue, dev>>

\* receive_audio: a response with a tool_call
RecvToolCall ==
    /\ Receiving
    /\ \E calls \in InBatches :
        /\ left.batches > 0
        /\ left' = [left EXCEPT !.batches = @ - 1]
        /\ HandleToolCall("receive_audio", calls)
    /\ UNCHANGED loopVars

\* receive_audio inside _handle_tool_call
RecvBatchStep ==
    /\ Streaming("receive_audio", "recv")
    /\ BatchStep("receive_audio")

\* play_audio: pya.open returned the output stream
PlayOpened ==
    /\ Streaming("play_audio", "opening")
    /\ dev' = [dev EXCEPT !.speaker = "open"]
    /\ task' = [task EXCEPT !["play_audio"] = "get"]
    /\ UNCHANGED <<storeVars, batchVars, left, run, held, out_queue, audio_in_queue, log>>

\* play_audio: audio_in_queue.get() returns the oldest chunk
PlayGet ==
    /\ Streaming("play_audio", "get")
    /\ audio_in_queue # <<>>
    /\ audio_in_queue' = QueueGet(audio_in_queue).rest
    /\ held' = [held EXCEPT !["play_audio"] = QueueGet(audio_in_queue).item]
    /\ task' = [task EXCEPT !["play_audio"] = "writing"]
    /\ UNCHANGED <<storeVars, batchVars, left, run, out_queue, dev, log>>

\* play_audio: stream.write returned
PlayWritten ==
    /\ Streaming("play_audio", "writing")
    /\ log' = [log EXCEPT !.written = Append(@, held["play_audio"].id)]
    /\ held' = [held EXCEPT !["play_audio"] = NoChunk]
    /\ task' = [task EXCEPT !["play_audio"] = "get"]
    /\ UNCHANGED <<storeVars, batchVars, left, run, out_queue, audio_in_queue, dev>>

(***************************************************************************)
(* How a task ends at the await it is suspended at.  `ran` says whether    *)
(* the worker thread the task was waiting for does its work: a cancelled   *)
(* asyncio.to_thread stops the thread only if it had not started.          *)
(***************************************************************************)
DevAfter(t, ran) ==
    IF ~ran \/ task[t] # "opening" THEN dev
    ELSE CASE t = "listen_audio" -> [dev EXCEPT !.mic = "open"]
           [] t = "get_frames" -> [dev EXCEPT !.camera = "open"]
           [] t = "play_audio" -> [dev EXCEPT !.speaker = "open"]
           [] OTHER -> dev

LogAfter(t, ran) ==
    IF held[t] = NoChunk THEN log
    ELSE IF t = "play_audio"
         THEN IF ran THEN [log EXCEPT !.written = Append(@, held[t].id)]
              ELSE [log EXCEPT !.dropped = @ \cup {held[t].id}]
         ELSE [log EXCEPT !.lost = @ \cup {held[t].id}]

\* the caller leaves _handle_tool_call by an exception: the `async with` releases
\* the lock (a waiter gives up its place); a handler run already handed to a
\* worker thread is not waited for
LeaveHandle(c, ran) ==
    LET h == handle[c] IN
    /\ handle' = [handle EXCEPT ![c] = Idle]
    /\ tool_lock' =
         IF h.pc \in {"exec", "send"} \/ (h.pc = "lock" /\ tool_lock.holder = c)
         THEN Release(tool_lock)
         ELSE [tool_lock EXCEPT !.waiters = SelectSeq(@, LAMBDA w : w # c)]
    /\ orphans' = IF h.pc = "exec" /\ h.thread = "queued" /\ ran
                  THEN Append(orphans, h.calls[h.i]) ELSE orphans
    /\ UNCHANGED <<storeVars, sent_responses>>

EndTask(t, how, ran) ==
    /\ task' = [task EXCEPT ![t] = how]
    /\ held' = [held EXCEPT ![t] = NoChunk]
    /\ dev' = DevAfter(t, ran)
    /\ log' = LogAfter(t, ran)
    /\ IF t = "receive_audio" THEN LeaveHandle("receive_audio", ran)
       ELSE UNCHANGED <<storeVars, batchVars>>
    /\ UNCHANGED <<left, out_queue, audio_in_queue>>

\* the awaits at which the device or the transport may raise
CanFail(t) ==
    CASE t \in {"send_text", "send_realtime"} -> task[t] = "sending"
      [] t = "listen_audio" -> task[t] \in {"opening", "reading"}
      [] t = "get_frames" -> task[t] \in {"opening", "grabbing"}
      [] t = "get_screen" -> task[t] = "grabbing"
      [] t = "receive_audio" -> task[t] = "recv" /\ handle[t].pc \in {"idle", "send"}
      [] t = "play_audio" -> task[t] \in {"opening", "writing"}

\* task t raises; the task group records the error and aborts
Fail(t) ==
    /\ run.pc = "streaming"
    /\ CanFail(t)
    /\ EndTask(t, "failed", FALSE)
    /\ Abort("error", {t})

\* the tasks in the order run() creates them
TaskOrder == <<"send_text", "send_realtime", "listen_audio", "get_frames", "get_screen",
               "receive_audio", "play_audio">>

\* t is the first task of the group that has not ended
FirstLive(t) ==
    \E n \in 1..Len(TaskOrder) :
        /\ TaskOrder[n] = t
        /\ Live(t)
        /\ \A m \in 1..(n - 1) : ~Live(TaskOrder[m])

\* cancellation that does not reach a task suspended in out_queue.put
Unwind_not_in_put(t) ==
    /\ run.pc = "closing"
    /\ FirstLive(t)
    /\ task[t] # "putting"
    /\ \E ran \in BOOLEAN : EndTask(t, "cancelled", ran)
    /\ UNCHANGED run

\* a cancelled task gets CancelledError at its await; no task catches it.  The
\* cancelled tasks are resumed one after the other in one pass of the event loop
\* and none of them reads what another leaves, so they are taken in one order.
Unwind(t) ==
    /\ run.pc = "closing"
    /\ FirstLive(t)
    /\ \E ran \in BOOLEAN : EndTask(t, "cancelled", ran)
    /\ UNCHANGED run

\* a handler run left behind on a worker thread still runs
OrphanRun ==
    /\ orphans # <<>>
    /\ Executed(RunOnThread(Head(orphans)))
    /\ orphans' = Tail(orphans)
    /\ UNCHANGED <<handle, tool_lock, sent_responses, left, loopVars>>

\* the task group has no task left: the session context exits, then the except
\* clauses of run(): CancelledError is passed over; for an ExceptionGroup
\* self.audio_stream.close() is called, an attribute only listen_audio assigns
RunExit ==
    /\ run.pc = "closing"
    /\ TasksUnwound
    /\ IF run.errors = {}
       THEN /\ run' = [run EXCEPT !.pc = "done", !.session = "closed"]
            /\ UNCHANGED dev
       ELSE IF dev.audio_stream
            THEN /\ run' = [run EXCEPT !.pc = "done", !.session = "closed"]
                 /\ dev' = [dev EXCEPT !.mic = "closed"]
            ELSE /\ run' = [run EXCEPT !.pc = "raised", !.session = "closed"]
                 /\ UNCHANGED dev
    /\ UNCHANGED <<storeVars, batchVars, left, task, held, out_queue, audio_in_queue, log>>

(***************************************************************************)
(* Spec: one run of AudioLoop.run with every task, on RunInputs inputs     *)
(* (too few to fill out_queue).  SpecOut: the capture tasks and the sender *)
(* around out_queue, filled.  SpecIn: the receiver and the playback task   *)
(* around audio_in_queue.                                                  *)
(***************************************************************************)
MaxCaptures == 6

MaxEvents == 4

\* in Spec: how many inputs (lines, captured chunks, responses) one run is given
RunInputs == 2

Lifecycle ==
    \/ Connect
    \/ ConnectFails
    \/ Spawn
    \/ TextQuit
    \/ \E t \in Tasks : Unwind(t)
    \/ RunExit

Outbound ==
    \/ ListenOpened
    \/ ListenRead
    \/ FramesOpened
    \/ FramesEnd
    \/ \E t \in Tasks : Grab(t) \/ SleepDone(t)
    \/ SenderGet
    \/ SenderSent

\* a producer that found out_queue full goes on
Backpressure == \E t \in Tasks : PutResume(t)

Inbound ==
    \/ RecvAudio
    \/ RecvText
    \/ RecvTurnComplete
    \/ PlayOpened
    \/ PlayGet
    \/ PlayWritten

Next ==
    \/ Lifecycle
    \/ Outbound
    \/ Inbound
    \/ TextLine
    \/ TextSent
    \/ RecvToolCall
    \/ RecvBatchStep
    \/ OrphanRun
    \/ \E t \in Tasks : Fail(t)

InitRun ==
    /\ InitStore
    /\ InitBatch
    /\ InitLoop(VideoModes)
    /\ left \in { in \in [batches : 0..RunInputs, captures : 0..RunInputs,
                            events : 0..RunInputs, lines : 0..RunInputs] :
                     in.batches + in.captures + in.events + in.lines = RunInputs }

Spec == InitRun /\ [][Next]_vars

InitOut ==
    /\ InitStore
    /\ InitBatch
    /\ InitLoop(VideoModes)
    /\ left = [NoInputs EXCEPT !.captures = MaxCaptures]

NextOut ==
    \/ Lifecycle
    \/ Outbound
    \/ Backpressure

SpecOut == InitOut /\ [][NextOut]_vars

\* SpecLive: the run around a filled out_queue, with the playback task waiting on
\* the empty audio_in_queue and with failures of the device and transport calls.
\* The event loop resumes every cancelled task and the waiting run(): these
\* steps are taken when they stay possible.
NextLive ==
    \/ NextOut
    \/ PlayOpened
    \/ \E t \in Tasks : Fail(t)

\* one capture more than out_queue holds: the queue fills and a put suspends
InitLive ==
    /\ InitStore
    /\ InitBatch
    /\ InitLoop(VideoModes)
    /\ left = [NoInputs EXCEPT !.captures = OutQueueMax + 1]

SpecLive ==
    /\ InitLive
    /\ [][NextLive]_vars
    /\ WF_vars(\E t \in Tasks : Unwind(t))
    /\ WF_vars(RunExit)

InitIn ==
    /\ InitStore
    /\ InitBatch
    /\ InitLoop({DEFAULT_MODE})
    /\ left = [NoInputs EXCEPT !.events = MaxEvents]

NextIn ==
    \/ Lifecycle
    \/ Inbound

SpecIn == InitIn /\ [][NextIn]_vars

(***************************************************************************)
(* Properties of the calls on the store                                    *)
(***************************************************************************)
\* the path arguments of a call
CallPaths(call) ==
    {call.args.kw[k] : k \in DOMAIN call.args.kw \cap {"path", "new_path", "old_path"}}

\* the keywords fit the signature of the tool the call names
BindsTo(call) ==
    LET t == get_tool_callable(call.name) IN
    /\ t.exc = "none"
    /\ call.args.isdict
    /\ DOMAIN call.args.kw \subseteq t.spec.params
    /\ t.spec.required \subseteq DOMAIN call.args.kw

\* the graph the call needs is not there
MissingGraph(call, gs) ==
    /\ BindsTo(call)
    /\ \/ call.name = "delete_process_graph" /\ call.args.kw["name"] \notin DOMAIN gs.adj
       \/ /\ call.name \in {"add_process_step", "update_process_step",
                            "add_process_transition", "remove_process_transition"}
          /\ call.args.kw["graph_name"] \notin DOMAIN gs.adj

\* the object or the path the call names is not there
MissingObjectOrPath(call, d) ==
    /\ BindsTo(call)
    /\ \/ /\ call.name \in {"list_object_locations", "move_object"}
          /\ "object_name" \in DOMAIN call.args.kw
          /\ \A i \in 1..Len(iter_object_paths(d)) :
                iter_object_paths(d)[i][1] # call.args.kw["object_name"]
       \/ /\ call.name = "delete_path"
          /\ _normalize_path(call.args.kw["path"]).exc = "none"
          /\ _walk(d, _normalize_path(call.args.kw["path"]).path).exc # "none"

\* the name is taken already
Conflict(call, d, gs) ==
    /\ BindsTo(call)
    /\ \/ call.name = "create_process_graph" /\ call.args.kw["name"] \in DOMAIN gs.adj
       \/ /\ call.name = "add_object"
          /\ "allow_duplicates" \notin DOMAIN call.args.kw
          /\ LET n == _normalize_path(call.args.kw["path"])
                 w == _walk(d, n.path)
             IN  /\ n.exc = "none"
                 /\ w.exc = "none"
                 /\ IsList(w.node)
                 /\ InSeq(w.node.items, call.args.kw["object_name"])

\* the path where add_object wants its bucket runs through a bucket or ends at a
\* mapping
TypeMismatch(call, d) ==
    /\ BindsTo(call)
    /\ call.name = "add_object"
    /\ LET n == _normalize_path(call.args.kw["path"]) IN
       /\ n.exc = "none"
       /\ \/ \E i \in 1..(Len(n.path) - 1) :
                LET w == _walk(d, SubSeq(n.path, 1, i))
                IN  w.exc = "none" /\ IsList(w.node)
          \/ LET w == _walk(d, n.path) IN w.exc = "none" /\ IsDict(w.node)

C4_HandlersNeverRaise ==
    (last.op = "handler" /\ \A p \in CallPaths(last.args) : _normalize_path(p).exc = "none")
        => last.exc = "none" /\ last.ret.status \in {"success", "error"}

RECURSIVE BucketPathsFrom(_, _)
RECURSIVE BucketPathsKeys(_, _, _)
\* the paths of the buckets below a node, in traversal order
BucketPathsFrom(node, path) ==
    IF IsList(node) THEN <<path>> ELSE BucketPathsKeys(node, path, 1)

BucketPathsKeys(node, path, i) ==
    IF i > Len(node.keys) THEN <<>>
    ELSE BucketPathsFrom(node.kids[node.keys[i]], Append(path, node.keys[i]))
            \o BucketPathsKeys(node, path, i + 1)

\* some bucket that traversal reaches before the one at `path` holds the name
HeldEarlier(d, path, name) ==
    LET bp == BucketPathsFrom(d, <<>>) IN
    \E i, j \in 1..Len(bp) : i < j /\ bp[j] = path /\ InSeq(BucketAt(d, bp[i]), name)

\* C10 as stated: whenever add_object(path, name) returns, find_object(name)
\* returns that path.
C10_AddThenFindSamePath ==
    (last.op = "add_object" /\ last.exc = "none")
        => find_object(data, last.args.object_name) = _normalize_path(last.args.path).path

\* C10 amended: whenever add_object(path, name) returns, name is in the bucket at
\* the normalized path and find_object(name) returns a path; it returns that same
\* path unless a bucket earlier in traversal order holds name.
C10_AddThenFind ==
    (last.op = "add_object" /\ last.exc = "none")
        => LET np == _normalize_path(last.args.path).path
               nm == last.args.object_name
           IN  /\ _walk(data, np).exc = "none"
               /\ IsList(_walk(data, np).node)
               /\ InSeq(BucketAt(data, np), nm)
               /\ find_object(data, nm) # NoPath
               /\ (~HeldEarlier(data, np, nm) => find_object(data, nm) = np)

\* C10 witness: add_object has appended a name that a later bucket holds too, and
\* find_object returns the path just added to
C10_Witness ==
    /\ last.op = "add_object"
    /\ last.exc = "none"
    /\ last.ret = TRUE
    /\ find_object(data, last.args.object_name) = _normalize_path(last.args.path).path
    /\ Len(list_objects(data)[last.args.object_name]) >= 2

(***************************************************************************)
(* Properties of the session: the queues, the tasks, the lifecycle         *)
(***************************************************************************)
\* the playback task takes a chunk off audio_in_queue in this step
PlayDequeues == task["play_audio"] = "get" /\ task'["play_audio"] = "writing"

\* C5: a turn-complete leaves audio_in_queue empty in the same step, so every
\* queued chunk was enqueued after the last turn-complete, and a chunk the playback
\* task dequeues was enqueued after the last turn-complete too (an older chunk can
\* only be one it already had in hand).
C5_DrainEmptiesQueue ==
    [][ /\ (log'.drains # log.drains => audio_in_queue' = <<>>)
        /\ \A n \in 1..Len(audio_in_queue') : audio_in_queue'[n].epoch = log'.drains
        /\ PlayDequeues => held'["play_audio"].epoch = log.drains ]_vars

\* C5 witness: a turn-complete has removed chunks while the playback task is still
\* writing a chunk it dequeued before it
C5_Witness ==
    /\ log.drained # {}
    /\ audio_in_queue = <<>>
    /\ task["play_audio"] = "writing"
    /\ held["play_audio"].epoch < log.drains

WrittenIds == {log.written[n] : n \in 1..Len(log.written)}

\* the chunks are numbered as the receiver enqueues them: written in enqueue
\* order, none twice
WrittenInOrder ==
    /\ WrittenIds \subseteq 1..log.enqueued
    /\ \A m, n \in 1..Len(log.written) : m < n => log.written[m] < log.written[n]

\* the chunk is still on its way to the device, or was removed by a drain
OnItsWay(id) ==
    \/ id \in WrittenIds
    \/ id \in log.drained
    \/ id \in Ids(audio_in_queue)
    \/ Live("play_audio") /\ held["play_audio"].id = id

Holders == {t \in Tasks : held[t] # NoChunk}

InHand == {held[t].id : t \in Holders}

\* every captured chunk is in exactly one place
Conserved ==
    /\ Ids(out_queue) \cup InHand \cup log.sent \cup log.lost = 1..log.captured
    /\ Len(out_queue) + Cardinality(Holders) + Cardinality(log.sent)
          + Cardinality(log.lost) = log.captured

\* C7: out_queue never holds more than OutQueueMax envelopes; a producer suspends
\* in put with its chunk only when the queue is full and leaves the put by
\* appending that same chunk (or by being cancelled); every captured chunk is in
\* the queue, in a task's hand, sent, or was lost when its task was cancelled,
\* never lost while the session is streaming.
C7_Backpressure ==
    [][ /\ Len(out_queue') <= OutQueueMax
        /\ \A t \in Tasks :
             /\ (task[t] # "putting" /\ task'[t] = "putting")
                   => Len(out_queue) = OutQueueMax /\ held'[t] # NoChunk
             /\ (task[t] = "putting" /\ task'[t] # "putting")
                   => \/ task'[t] = "cancelled"
                      \/ out_queue' = Append(out_queue, held[t])
        /\ Conserved'
        /\ (log'.lost # {} => run'.pc \notin {"streaming"}) ]_vars

\* C7 witness: a chunk whose put found the queue full has been sent
C7_Witness == log.waited \cap log.sent # {}

\* C8: once the run has ended after the user's exit sentinel, every task has
\* ended and the microphone stream and the camera are released.
C8_ExitReleasesDevices ==
    (run.pc = "done" /\ run.exit = "user")
        => /\ TasksUnwound
           /\ dev.mic = "closed"
           /\ dev.camera = "closed"

\* the lifecycle state of the spec that run() is in
Phase(pc) ==
    CASE pc = "idle" -> 1
      [] pc = "connected" -> 2
      [] pc = "streaming" -> 3
      [] pc = "closing" -> 4
      [] pc \in {"done", "raised"} -> 5

\* C9: the lifecycle never moves back; a task exists only while the session is
\* open and run() is Streaming or Closing (none before the handshake, none after
\* Terminated); the session is closed only when every task has ended.
C9_LifecycleForward ==
    [][ /\ Phase(run'.pc) >= Phase(run.pc)
        /\ \A t \in Tasks :
             task'[t] \notin Ended
                => run'.session = "open" /\ run'.pc \in {"streaming", "closing"}
        /\ run'.pc \in {"done", "raised"} => \A t \in Tasks : task'[t] \in Ended
        /\ run'.session = "closed" => \A t \in Tasks : task'[t] \in Ended ]_vars

\* C9 witness: run() has ended with the session closed after cancelling its tasks
C9_Witness ==
    /\ run.pc = "done"
    /\ run.session = "closed"
    /\ \E t \in Tasks : task[t] = "cancelled"
    /\ \E t \in Tasks : task[t] = "done"


(***************************************************************************)
(* Properties of the object index (SpecDict)                               *)
(***************************************************************************)
\* how many times the name is stored in the bucket at an existing path
CountAt(d, path, name) == Len(SelectSeq(BucketAt(d, path), LAMBDA x : x = name))

\* how many times the name is stored in the whole index
CountAll(d, name) == Len(SelectSeq(iter_object_paths(d), LAMBDA e : e[1] = name))

\* the call just made was move_object, without duplicates allowed, and it returned True
MovedNoDup ==
    /\ last'.op = "move_object"
    /\ last'.exc = "none"
    /\ last'.ret = TRUE
    /\ ~last'.args.allow_duplicates

\* the name is stored once in the bucket at `path` and in no other bucket
OnlyAt(d, path, name) ==
    /\ _walk(d, path).exc = "none"
    /\ IsList(_walk(d, path).node)
    /\ CountAt(d, path, name) = 1
    /\ CountAll(d, name) = 1

\* C11 as stated: after move_object(name, new_path) succeeds with allow_duplicates
\* false, name is absent from every bucket other than the one at new_path and
\* occurs exactly once in the bucket at new_path.
C11_MovedOnlyAtNewPath ==
    [][MovedNoDup => OnlyAt(data', _normalize_path(last'.args.new_path).path,
                            last'.args.object_name)]_vars

\* C11 amended: after move_object(name, new_path) succeeds with allow_duplicates
\* false, the bucket at new_path holds name and the index holds name no more often
\* than before; when name was stored exactly once before the call, it is absent
\* from every other bucket and occurs exactly once in the bucket at new_path.
C11_MovedSingleCopy ==
    [][MovedNoDup =>
         LET np == _normalize_path(last'.args.new_path).path
             nm == last'.args.object_name
         IN  /\ _walk(data', np).exc = "none"
             /\ IsList(_walk(data', np).node)
             /\ CountAt(data', np, nm) >= 1
             /\ CountAll(data', nm) <= CountAll(data, nm)
             /\ (CountAll(data, nm) = 1 => OnlyAt(data', np, nm))]_vars

\* C11 witness: move_object has moved a name stored once to another bucket, where
\* it is now the only copy
C11_Witness ==
    /\ last.op = "move_object"
    /\ last.exc = "none"
    /\ last.ret = TRUE
    /\ ~last.args.allow_duplicates
    /\ _normalize_path(last.args.new_path).path = <<"b", "b", "a">>
    /\ last.args.object_name = "x"
    /\ OnlyAt(data, <<"b", "b", "a">>, "x")

\* the bucket an object was removed from by the remove_object call `call`, made
\* on the index d: the path given, or the first holder in traversal order
RemovedFrom(d, call) ==
    IF call.args.path = NoArg THEN find_object(d, call.args.object_name)
    ELSE _normalize_path(call.args.path).path

\* the number of keys of the mapping at an existing path
KeyCount(d, path) == Len(WalkFrom(d, path).node.keys)

\* how many keys of the path lead to the first ancestor of the node at `path`
\* that has another child besides the one on the path (0: none has, the root)
FirstNonEmptyAncestor(d, path) ==
    CHOOSE i \in 0..(Len(path) - 1) :
        /\ i = 0 \/ KeyCount(d, SubSeq(path, 1, i)) > 1
        /\ \A j \in (i + 1)..(Len(path) - 1) : KeyCount(d, SubSeq(path, 1, j)) = 1

\* the index with the branch that leads only to the node at `path` detached from
\* the first ancestor that has another child
BranchDetached(d, path) ==
    LET i == FirstNonEmptyAncestor(d, path)
        stop == SubSeq(path, 1, i)
    IN  SetAt(d, stop, DictPop(WalkFrom(d, stop).node, path[i + 1]))

\* the call just made was remove_object, it returned True, and the bucket it
\* removed from held one item
RemovedLastItem ==
    /\ last'.op = "remove_object"
    /\ last'.exc = "none"
    /\ last'.ret = TRUE
    /\ Len(BucketAt(data, RemovedFrom(data, last'))) = 1

\* C12: a remove_object that removes the last item of a bucket deletes that bucket
\* and then every ancestor mapping left empty, up to the first ancestor that has
\* another child; the root stays, and nothing else in the index changes.
C12_PruneEmptyBranch ==
    [][RemovedLastItem =>
         LET p == RemovedFrom(data, last') IN
         /\ IsDict(data')
         /\ _walk(data', p).exc = "KeyError"
         /\ data' = BranchDetached(data, p)]_vars

\* C12 witness: the only item three levels down was removed; its bucket and the
\* mapping that held only that bucket are gone, the mapping above them, which has
\* another child, is kept
C12_Witness ==
    /\ last.op = "remove_object"
    /\ last.exc = "none"
    /\ last.ret = TRUE
    /\ last.args.object_name = "y"
    /\ _walk(data, <<"b", "b">>).exc = "KeyError"
    /\ _walk(data, <<"b", "a">>).exc = "none"
    /\ _walk(data, <<"a", "a">>).exc = "none"

\* the items of the bucket at a path, none when the path leads to no bucket
ItemsAt(d, path) ==
    IF _walk(d, path).exc = "none" /\ IsList(_walk(d, path).node)
    THEN BucketAt(d, path) ELSE <<>>

\* no item occurs twice in the sequence
DuplicateFree(s) == \A i, j \in 1..Len(s) : s[i] = s[j] => i = j

\* the call just made was extend_objects without duplicates allowed, it returned,
\* and its input repeats an item, within the names or against the bucket
ExtendedWithRepeat ==
    /\ last'.op = "extend_objects"
    /\ last'.exc = "none"
    /\ ~last'.args.allow_duplicates
    /\ \/ ~DuplicateFree(last'.args.object_names)
       \/ \E i \in 1..Len(last'.args.object_names) :
             InSeq(ItemsAt(data, _normalize_path(last'.args.path).path),
                   last'.args.object_names[i])

\* C13 as stated: extend_objects(path, names) with allow_duplicates false and an
\* input that repeats an item returns an insertion count strictly less than
\* len(names) and leaves the bucket at path free of duplicates.
C13_ExtendLeavesNoDuplicates ==
    [][ExtendedWithRepeat =>
         /\ last'.ret < Len(last'.args.object_names)
         /\ DuplicateFree(ItemsAt(data', _normalize_path(last'.args.path).path))]_vars

\* C13 amended: such a call returns an insertion count strictly less than
\* len(names) and adds no duplicate: every item the bucket held keeps its number
\* of occurrences, every other name of the input occurs once, and a bucket that
\* was free of duplicates before the call is free of duplicates after it.
C13_ExtendAddsNoDuplicate ==
    [][ExtendedWithRepeat =>
         LET p == _normalize_path(last'.args.path).path
             names == last'.args.object_names
             before == ItemsAt(data, p)
             after == ItemsAt(data', p)
             Times(s, n) == Len(SelectSeq(s, LAMBDA x : x = n))
         IN  /\ last'.ret < Len(names)
             /\ IsList(_walk(data', p).node)
             /\ \A n \in Objects :
                   Times(after, n) = IF InSeq(before, n) THEN Times(before, n)
                                     ELSE IF InSeq(names, n) THEN 1 ELSE 0
             /\ last'.ret = Len(after) - Len(before)
             /\ (DuplicateFree(before) => DuplicateFree(after))]_vars

\* C13 witness: an input that names the same new item twice was added to a bucket
\* that holds another item; one insertion was counted and the bucket holds each
\* item once
C13_Witness ==
    /\ last.op = "extend_objects"
    /\ last.exc = "none"
    /\ ~last.args.allow_duplicates
    /\ last.args.object_names = <<"y", "y">>
    /\ last.ret = 1
    /\ ItemsAt(data, _normalize_path(last.args.path).path) = <<"x", "y">>

\* C14: as_dict returns a deep copy: no mutation of the returned structure, at any
\* depth, changes the index, so every later index operation gives the result it
\* would have given without the mutation.
C14_SnapshotIsDetached ==
    [][last'.op = "mutate" =>
         /\ data' = data
         /\ \A path \in InPaths :
               /\ has_path(data', path) = has_path(data, path)
               /\ get_path(data', path) = get_path(data, path)
         /\ list_objects(data') = list_objects(data)]_vars

\* C14 witness: the caller has appended to a bucket two levels down in the
\* structure as_dict returned; the structure shows the item, the index does not
C14_Witness ==
    /\ last.op = "mutate"
    /\ last.args.kind = "append"
    /\ last.args.path = <<"a", "a">>
    /\ InSeq(BucketAt(last.ret.tree, <<"a", "a">>), "peeler")
    /\ ~InSeq(BucketAt(data, <<"a", "a">>), "peeler")

(***************************************************************************)
(* Properties of the tool handlers (SpecTools)                             *)
(***************************************************************************)
\* the call recorded in `call` is a call of the tool `name`, directly or through
\* _execute_tool_call, with a dict of arguments that has all of `keys`
IsCallOf(call, name, keys) ==
    /\ call.op \in {"handler", "execute"}
    /\ call.args.name = name
    /\ call.args.args.isdict
    /\ keys \subseteq DOMAIN call.args.args.kw

Kw(call) == call.args.args.kw

\* C15: delete_path(p) on an existing path removes the node at p with everything
\* below it (and the ancestors that hold nothing else) and reports success, after
\* which has_path(p) is false; delete_path on a path that does not exist, the
\* same path deleted again in particular, yields the error envelope of the tool
\* and leaves the index unchanged.
C15_DeleteThenDeleteAgain ==
    [][(IsCallOf(last', "delete_path", {"path"})
            /\ _normalize_path(Kw(last').path).exc = "none") =>
         LET p == _normalize_path(Kw(last').path).path IN
         /\ last'.exc = "none"
         /\ has_path(data, Kw(last').path).ret =>
               /\ last'.ret.status = "success"
               /\ ~has_path(data', Kw(last').path).ret
               /\ \A q \in NodePaths(data', <<>>) :
                     ~(Len(q) >= Len(p) /\ SubSeq(q, 1, Len(p)) = p)
               /\ data' = BranchDetached(data, p)
               /\ data' = delete_path(data, Kw(last').path).data
         /\ ~has_path(data, Kw(last').path).ret =>
               /\ last'.ret.status = "error"
               /\ data' = data
         /\ (/\ IsCallOf(last, "delete_path", {"path"})
             /\ last.exc = "none"
             /\ last.ret.status = "success"
             /\ Kw(last).path = Kw(last').path) =>
               /\ last'.ret.status = "error"
               /\ data' = data]_vars

\* C15 witness: the bucket b/b/a of the home layout was deleted (and the mapping
\* that held only it), and the second call on the same path has returned the
\* error envelope
C15_Witness ==
    /\ ops = 2
    /\ IsCallOf(last, "delete_path", {"path"})
    /\ Kw(last).path = SeqPath(<<"b", "b", "a">>)
    /\ last.ret.status = "error"
    /\ data = delete_path(HomeLayout, SeqPath(<<"b", "b", "a">>)).data
    /\ _walk(data, <<"b", "b">>).exc = "KeyError"
    /\ _walk(data, <<"b", "a">>).exc = "none"

\* the tool names the registry is to expose, in order
DeclaredTools ==
    << "list_process_graphs", "create_process_graph", "delete_process_graph",
       "add_process_step", "update_process_step", "add_process_transition",
       "remove_process_transition", "list_object_locations", "add_object",
       "move_object", "delete_path" >>

\* the handler methods of PreferenceService, in the order of their tools
ToolMethods ==
    << "tool_list_process_graphs", "tool_create_process_graph",
       "tool_delete_process_graph", "tool_add_process_step",
       "tool_update_process_step", "tool_add_process_transition",
       "tool_remove_process_transition", "tool_list_object_locations",
       "tool_add_object", "tool_move_object", "tool_delete_path" >>

\* names that are no declared tool: unknown, a method name, another case, empty
UndeclaredNames == {"no_such_tool", "tool_add_object", "Add_Object", ""}

\* C19: the registry exposes exactly the eleven declared tool names, each once,
\* with one handler per declaration in the same order; get_tool_callable(name)
\* returns the handler paired with that declaration and fails with not-found for
\* every other name, which _execute_tool_call reports as an unregistered tool.
C19_Registry ==
    /\ function_declarations = DeclaredTools
    /\ Len(function_declarations) = 11
    /\ \A i, j \in 1..Len(function_declarations) :
          function_declarations[i] = function_declarations[j] => i = j
    /\ toolkit = ToolMethods
    /\ \A i, j \in 1..Len(toolkit) : toolkit[i] = toolkit[j] => i = j
    /\ \A i \in 1..Len(function_declarations) :
          /\ get_tool_callable(function_declarations[i]).exc = "none"
          /\ get_tool_callable(function_declarations[i]).spec = _FUNCTION_REGISTRY[i]
          /\ get_tool_callable(function_declarations[i]).spec.method = toolkit[i]
    /\ \A n \in UndeclaredNames : get_tool_callable(n).exc = "KeyError"
    /\ last.op = "execute" =>
          (InSeq(DeclaredTools, last.args.name)
              <=> last.ret.message # _error("Tool is not registered.").message)

\* C19 witness: a declared tool was dispatched to its handler, which answered
C19_Witness ==
    /\ last.op = "execute"
    /\ last.args.name = "move_object"
    /\ get_tool_callable(last.args.name).spec.method = "tool_move_object"
    /\ last.ret.status = "success"
    /\ "new_path" \in DOMAIN last.ret.body

(***************************************************************************)
(* Properties of ProcessGraph (SpecGraph)                                  *)
(***************************************************************************)
\* the edges of an adjacency
Edges(a) == {e \in StepSet \X StepSet : e[1] \in DOMAIN a /\ e[2] \in a[e[1]]}

\* C16: after add_transition(start, end) both are steps, successors(start)
\* contains end and predecessors(end) contains start; nothing else is added and
\* nothing is removed; repeating the call changes nothing.
C16_AddTransition ==
    [][last'.op = "add_transition" =>
         LET start == last'.args.start
             end == last'.args.end
             a == graphs.adj["g"]
             b == graphs'.adj["g"]
         IN  /\ start \in steps(b) /\ end \in steps(b)
             /\ InSeq(successors(b, start), end)
             /\ InSeq(predecessors(b, end), start)
             /\ steps(b) = steps(a) \cup {start, end}
             /\ Edges(b) = Edges(a) \cup {<<start, end>>}
             /\ add_transition(b, start, end) = b
             /\ (last.op = "add_transition" /\ last.args = last'.args)
                    => graphs' = graphs]_vars

\* C16 witness: a second call has added a transition between two steps the
\* graph did not have, next to an edge it had
C16_Witness ==
    /\ ops = 2
    /\ last.op = "add_transition"
    /\ last.args = [start |-> "Clear", end |-> "Wipe"]
    /\ successors(Adj, "Clear") = <<"Wipe">>
    /\ predecessors(Adj, "Wipe") = <<"Clear", "Dry">>

\* the step an edge end is called after old_step was renamed to new_step
Renamed(x, old_step, new_step) == IF x = old_step THEN new_step ELSE x

\* the call just made was update_step(old, new) with old a step and old # new
UpdatedStep ==
    /\ last'.op = "update_step"
    /\ last'.args.old_step \in steps(graphs.adj["g"])
    /\ last'.args.old_step # last'.args.new_step

\* C17: after update_step(old, new) with old a step and old # new, every former
\* successor of old (other than old and new) is a successor of new, every former
\* predecessor of old (other than old and new) is a predecessor of new, the edges
\* new already had and every edge that does not touch old are kept, old is
\* neither a step nor in any successor set; and every edge afterwards is an edge
\* from before with old renamed to new.
C17_UpdateStep ==
    [][UpdatedStep =>
         LET old == last'.args.old_step
             new == last'.args.new_step
             a == graphs.adj["g"]
             b == graphs'.adj["g"]
         IN  /\ \A s \in a[old] \ {old, new} : InSeq(successors(b, new), s)
             /\ \A p \in {q \in DOMAIN a : old \in a[q]} \ {old, new} :
                   InSeq(predecessors(b, new), p)
             /\ \A e \in Edges(a) : (e[1] # old /\ e[2] # old) => e \in Edges(b)
             /\ steps(b) = (steps(a) \ {old}) \cup {new}
             /\ old \notin steps(b)
             /\ \A u \in steps(b) : old \notin b[u]
             /\ \A e \in Edges(b) :
                   \E f \in Edges(a) : e = <<Renamed(f[1], old, new),
                                             Renamed(f[2], old, new)>>]_vars

\* C17 witness: Dry, which had a predecessor and a successor, was renamed to Wipe,
\* which had an edge of its own; Wipe has them all
C17_Witness ==
    /\ last.op = "update_step"
    /\ last.args = [old_step |-> "Dry", new_step |-> "Wipe"]
    /\ steps(Adj) = {"Clear", "Wipe"}
    /\ Adj["Clear"] = {"Wipe"}
    /\ Adj["Wipe"] = {"Clear"}

\* C18: after remove_step(step), step is not a step and no successor set contains
\* it; every other step is kept and every edge that does not touch step is
\* unchanged.
C18_RemoveStep ==
    [][last'.op = "remove_step" =>
         LET step == last'.args.step
             a == graphs.adj["g"]
             b == graphs'.adj["g"]
         IN  /\ step \notin steps(b)
             /\ \A u \in steps(b) : step \notin b[u]
             /\ \A u \in StepSet : ~InSeq(successors(b, u), step)
             /\ predecessors(b, step) = <<>>
             /\ steps(b) = steps(a) \ {step}
             /\ Edges(b) = {e \in Edges(a) : e[1] # step /\ e[2] # step}]_vars

\* C18 witness: Dry was removed from a graph of three steps; the two others are
\* left with the edge between them
C18_Witness ==
    /\ last.op = "remove_step"
    /\ last.args.step = "Dry"
    /\ steps(Adj) = {"Clear", "Wipe"}
    /\ Adj["Clear"] = {"Wipe"}
    /\ Adj["Wipe"] = {}

(***************************************************************************)
(* Properties of the graph handlers (SpecGraphTools)                       *)
(***************************************************************************)
\* the handlers that mutate a graph and return its snapshot
SnapshotTools ==
    {"create_process_graph", "add_process_step", "update_process_step",
     "add_process_transition", "remove_process_transition"}

\* the graph a call of one of them is about
GraphOf(call) ==
    IF call.args.name = "create_process_graph" THEN Kw(call).name
    ELSE Kw(call).graph_name

\* the place of a step name in lexicographic order
Rank(x) == CHOOSE i \in 1..Len(StepNames) : StepNames[i] = x

\* snap is the snapshot of the graph `name` with adjacency b: its steps are all
\* the steps, each once, in sorted order, and its transitions are exactly the
\* edges, each once
IsSnapshotOf(snap, name, b) ==
    /\ snap.name = name
    /\ {snap.steps[i] : i \in 1..Len(snap.steps)} = steps(b)
    /\ \A i, j \in 1..Len(snap.steps) :
          i < j => Rank(snap.steps[i]) < Rank(snap.steps[j])
    /\ {<<snap.transitions[i].from, snap.transitions[i].to>> :
            i \in 1..Len(snap.transitions)} = Edges(b)
    /\ Len(snap.transitions) = Cardinality(Edges(b))

\* what list_process_graphs returns on the store
Listed(gs) == tool_list_process_graphs([data |-> HomeLayout, graphs |-> gs]).env.body

\* the call just made was a graph handler other than delete, and it succeeded
GraphChanged ==
    /\ last'.op = "handler"
    /\ last'.args.name \in SnapshotTools
    /\ last'.exc = "none"
    /\ last'.ret.status = "success"

\* C20: each mutating graph handler other than delete that succeeds returns the
\* snapshot of the affected graph as the mutation left it (all steps, sorted; the
\* transitions exactly the edges), the same snapshot list_process_graphs then
\* gives for that graph; after add_step(g, s) the steps include s, and after
\* add_transition(g, s, t) the steps include s and t and the transitions include
\* {from: s, to: t}.
C20_SnapshotAfterMutation ==
    [][GraphChanged =>
         LET g == GraphOf(last')
             snap == last'.ret.body
         IN  /\ HasGraph(graphs', g)
             /\ IsSnapshotOf(snap, g, graphs'.adj[g])
             /\ \E i \in 1..Len(Listed(graphs')) : Listed(graphs')[i] = snap
             /\ \A i \in 1..Len(Listed(graphs')) :
                   Listed(graphs')[i].name = g => Listed(graphs')[i] = snap
             /\ last'.args.name = "add_process_step" =>
                   InSeq(snap.steps, Kw(last').step)
             /\ last'.args.name = "add_process_transition" =>
                   /\ InSeq(snap.steps, Kw(last').start)
                   /\ InSeq(snap.steps, Kw(last').end)
                   /\ InSeq(snap.transitions,
                            [from |-> Kw(last').start, to |-> Kw(last').end])]_vars

\* C20 witness: g was created, a step added and a transition to a second step;
\* the snapshot returned has both steps and the transition
C20_Witness ==
    /\ ops = 3
    /\ last.op = "handler"
    /\ last.args.name = "add_process_transition"
    /\ last.ret.status = "success"
    /\ last.ret.body = [name |-> "g", steps |-> <<"Clear", "Wipe">>,
                        transitions |-> <<[from |-> "Clear", to |-> "Wipe"]>>]

\* C21: create_process_graph with a name that is taken returns an error envelope
\* and leaves the graphs as they were; delete_process_graph with a name that is
\* absent, a second delete of the same name in particular, returns an error
\* envelope and leaves every graph unchanged.  (On a free name create succeeds,
\* on a present name delete succeeds and removes that graph only.)
C21_CreateTakenDeleteAbsent ==
    [][(last'.op = "handler"
            /\ last'.args.name \in {"create_process_graph", "delete_process_graph"}) =>
         LET name == Kw(last').name
             create == last'.args.name = "create_process_graph"
         IN  /\ last'.exc = "none"
             /\ data' = data
             /\ (create /\ HasGraph(graphs, name)) =>
                   last'.ret.status = "error" /\ graphs' = graphs
             /\ (create /\ ~HasGraph(graphs, name)) =>
                   /\ last'.ret.status = "success"
                   /\ graphs' = PutGraph(graphs, name, NoSteps)
             /\ (~create /\ ~HasGraph(graphs, name)) =>
                   last'.ret.status = "error" /\ graphs' = graphs
             /\ (~create /\ HasGraph(graphs, name)) =>
                   /\ last'.ret.status = "success"
                   /\ ~HasGraph(graphs', name)
                   /\ \A g \in DOMAIN graphs.adj \ {name} :
                         HasGraph(graphs', g) /\ graphs'.adj[g] = graphs.adj[g]
             /\ (/\ ~create
                 /\ last.op = "handler"
                 /\ last.args = last'.args
                 /\ last.ret.status = "success") =>
                   last'.ret.status = "error" /\ graphs' = graphs]_vars

\* C21 witness: g was created and given a transition; a second create of g was
\* answered with an error and g still has its steps and its transition
C21_Witness ==
    /\ ops = 3
    /\ last.op = "handler"
    /\ last.args.name = "create_process_graph"
    /\ Kw(last).name = "g"
    /\ last.ret.status = "error"
    /\ HasGraph(graphs, "g")
    /\ Edges(graphs.adj["g"]) = {<<"Clear", "Wipe">>}

\* the graph is there but the transition the call wants removed is not: start or
\* end is not a step, or there is no edge from start to end
MissingTransition(call, gs) ==
    /\ BindsTo(call)
    /\ call.name = "remove_process_transition"
    /\ HasGraph(gs, call.args.kw["graph_name"])
    /\ <<call.args.kw["start"], call.args.kw["end"]>>
          \notin Edges(gs.adj[call.args.kw["graph_name"]])

\* C22: every not-found condition is reported to the remote model as an error
\* envelope: a missing graph, a missing step pair for a transition removal, and
\* a missing path or object.
C22_NotFoundIsError ==
    [][(last'.op = "execute"
          /\ \/ MissingGraph(last'.args, graphs)
             \/ MissingTransition(last'.args, graphs)
             \/ MissingObjectOrPath(last'.args, data))
         => last'.exc = "none" /\ last'.ret.status = "error"]_vars

(***************************************************************************)
(* Properties of _handle_tool_call (SpecBatch)                             *)
(***************************************************************************)
\* the batch answers the calls one for one, in call order, each response keyed by
\* its call's identifier and name
AnswersEachCall(batch, calls) ==
    /\ Len(batch) = Len(calls)
    /\ \A i \in 1..Len(batch) :
          batch[i].id = calls[i].id /\ batch[i].name = calls[i].name

\* C23: for each tool-call event that carries at least one function call, exactly
\* one batch of tool responses is sent, and it has exactly one response per
\* function call of the event, in call order, each keyed by that call's
\* identifier and name.
C23_OneResponsePerCall ==
    [][\A c \in Invokers :
          (handle[c].pc # "idle" /\ handle'[c].pc = "idle") =>
             /\ Len(sent_responses') = Len(sent_responses) + 1
             /\ AnswersEachCall(sent_responses'[Len(sent_responses')],
                                handle[c].calls)]_vars

(***************************************************************************)
(* Properties of the sender (SpecOut)                                      *)
(***************************************************************************)
\* q2 is q with one envelope put at its end
Appended(q, q2) == Len(q2) = Len(q) + 1 /\ SubSeq(q2, 1, Len(q)) = q

\* the sender takes an envelope off out_queue in this step
SenderDequeues == task["send_realtime"] = "get" /\ task'["send_realtime"] = "sending"

\* C24: the sender forwards the envelopes in the order they were enqueued, each
\* once and one at a time.  Step by step: envelopes enter out_queue at its end
\* and leave it only at its head, taken by the sender; the sender hands the
\* envelope it took to the transport before it takes another; the send that
\* completes is counted once, for an envelope not forwarded before; a send that
\* is cut short ends the task, the envelope is abandoned and not sent again.
C24_SenderFifo ==
    [][ /\ Cardinality(Ids(out_queue')) = Len(out_queue')
        /\ out_queue' # out_queue =>
              \/ Appended(out_queue, out_queue')
              \/ SenderDequeues /\ out_queue # <<>> /\ out_queue' = Tail(out_queue)
        /\ SenderDequeues =>
              /\ out_queue # <<>>
              /\ held'["send_realtime"] = Head(out_queue)
              /\ out_queue' = Tail(out_queue)
              /\ Head(out_queue).id \notin log.sent \cup log.lost
              /\ held["send_realtime"] = NoChunk
        /\ task["send_realtime"] = "sending" =>
              /\ out_queue' = out_queue \/ Appended(out_queue, out_queue')
              /\ held'["send_realtime"] \in {held["send_realtime"], NoChunk}
              /\ task'["send_realtime"] \in {"sending", "get", "cancelled", "failed"}
              /\ task'["send_realtime"] = "get" =>
                    /\ held["send_realtime"].id \notin log.sent
                    /\ log'.sent = log.sent \cup {held["send_realtime"].id}
                    /\ held'["send_realtime"] = NoChunk
              /\ task'["send_realtime"] \in {"cancelled", "failed"} =>
                    /\ log'.sent = log.sent
                    /\ held["send_realtime"].id \in log'.lost
        /\ log'.sent # log.sent => task["send_realtime"] = "sending"
        /\ log.sent \subseteq log'.sent
        /\ log'.sent \cap (Ids(out_queue') \cup log'.lost) = {} ]_vars

\* C24 witness: two envelopes were forwarded, a third is being sent and more are
\* queued behind it
C24_Witness ==
    /\ Cardinality(log.sent) >= 2
    /\ task["send_realtime"] = "sending"
    /\ held["send_realtime"] # NoChunk
    /\ Len(out_queue) >= 2

(***************************************************************************)
(* Properties of a failing run (Spec)                                      *)
(***************************************************************************)
\* C25: when a task has failed, the sibling tasks are cancelled and have all
\* unwound before a device is released, and once run() has ended every device
\* that had been opened is released.
C25_FailureReleasesDevices ==
    (run.pc \in {"done", "raised"} /\ run.exit = "error")
        => /\ TasksUnwound
           /\ dev.mic = "closed"
           /\ dev.camera = "closed"
           /\ dev.speaker = "closed"

(***************************************************************************)
(* Termination (SpecLive)                                                  *)
(***************************************************************************)
\* C26: once the user has entered the exit sentinel or a task has failed (run()
\* is Closing), run() eventually ends with every task unwound, wherever the
\* tasks were suspended: in a put on the full out_queue, in a get on an empty
\* queue, in a device call or in a transport call.
C26_EventuallyTerminated ==
    (run.pc = "closing") ~> (run.pc \in {"done", "raised"} /\ TasksUnwound)

\* C26 witness: run() has ended after a task failed, and a chunk whose put had
\* found the queue full was given up when its task was cancelled in the put
C26_Witness ==
    /\ run.pc \in {"done", "raised"}
    /\ run.exit = "error"
    /\ TasksUnwound
    /\ log.waited \cap log.lost # {}

(***************************************************************************)
(* Failed moves, removal of the first match, buckets without duplicates    *)
(* (SpecDict)                                                              *)
(***************************************************************************)
\* some key of the path is missing from the mapping that should hold it
MissingKey(d, path) ==
    \E i \in 1..Len(path) :
        LET parent == _walk(d, SubSeq(path, 1, i - 1)) IN
        /\ parent.exc = "none"
        /\ IsDict(parent.node)
        /\ ~HasKey(parent.node, path[i])

\* the removal step of the move_object call `call`, made on the index d, fails:
\* the name is nowhere (no old_path), old_path does not exist, or the bucket at
\* old_path does not hold the name
RemovalFails(d, call) ==
    LET name == call.args.object_name
        old == _normalize_path(call.args.old_path)
    IN  IF call.args.old_path = NoArg THEN CountAll(d, name) = 0
        ELSE /\ old.exc = "none"
             /\ \/ MissingKey(d, old.path)
                \/ /\ _walk(d, old.path).exc = "none"
                   /\ IsList(_walk(d, old.path).node)
                   /\ CountAt(d, old.path, name) = 0

\* C27: when the removal step of move_object fails (the name is nowhere in the
\* index, or not in the bucket at old_path, or old_path does not exist),
\* move_object returns false and the whole index is unchanged: nothing is added
\* or created at new_path.
C27_FailedMoveChangesNothing ==
    [][(last'.op = "move_object" /\ RemovalFails(data, last')) =>
         /\ last'.exc = "none"
         /\ last'.ret = FALSE
         /\ data' = data]_vars

\* C27 witness: a move of y out of a bucket that does not hold it, to a path
\* that does not exist, returned False and the path still does not exist
C27_Witness ==
    /\ last.op = "move_object"
    /\ last.exc = "none"
    /\ last.ret = FALSE
    /\ last.args.object_name = "y"
    /\ last.args.old_path = SeqPath(<<"a", "a">>)
    /\ last.args.new_path = SeqPath(<<"b", "a", "b">>)
    /\ BucketAt(data, <<"a", "a">>) = <<"x">>
    /\ MissingKey(data, <<"b", "a", "b">>)
    /\ data = HomeLayout

\* the call just made was remove_object without a path
RemovedByName ==
    /\ last'.op = "remove_object"
    /\ last'.args.path = NoArg

\* `after` is `before` without its first entry for the name, and that entry
\* names the bucket at `path`; every other entry is where it was
FirstEntryRemoved(before, after, name, path) ==
    \E i \in 1..Len(before) :
        /\ before[i] = <<name, path>>
        /\ \A j \in 1..(i - 1) : before[j][1] # name
        /\ after = SubSeq(before, 1, i - 1) \o SubSeq(before, i + 1, Len(before))

\* C28: remove_object(name) without a path removes exactly one occurrence of
\* name, the first one in the bucket at the path find_object(name) returned just
\* before the call; every other occurrence and every other item stays in place;
\* when name is nowhere it returns false and the index is unchanged.
C28_RemoveFirstMatch ==
    [][RemovedByName =>
         LET name == last'.args.object_name
             match == find_object(data, name)
         IN  /\ last'.exc = "none"
             /\ IF CountAll(data, name) = 0
                THEN /\ match = NoPath
                     /\ last'.ret = FALSE
                     /\ data' = data
                ELSE /\ last'.ret = TRUE
                     /\ CountAll(data', name) = CountAll(data, name) - 1
                     /\ FirstEntryRemoved(iter_object_paths(data),
                                          iter_object_paths(data'), name, match)
                     /\ (_walk(data', match).exc = "none" =>
                            BucketAt(data', match) =
                                RemoveFirst(BucketAt(data, match), name))]_vars

\* C28 witness: remove_object("x") has taken the first x out of the bucket
\* [x, x, y]; the second x and y are where they were
C28_Witness ==
    /\ ops = 2
    /\ last.op = "remove_object"
    /\ last.args.path = NoArg
    /\ last.args.object_name = "x"
    /\ last.ret = TRUE
    /\ BucketAt(data, <<"a", "a">>) = <<"x", "y">>
    /\ CountAll(data, "y") = 2

\* no bucket of the index holds an item twice
BucketsDuplicateFree(d) ==
    \A path \in NodePaths(d, <<>>) : DuplicateFree(ItemsAt(d, path))

\* the call is one of the five mutators and does not allow duplicates
WithoutDuplicates(call) ==
    IF call.op \in {"add_object", "extend_objects", "move_object"}
    THEN ~call.args.allow_duplicates
    ELSE call.op \in {"remove_object", "delete_path"}

\* the call was add_object without duplicates allowed, on a bucket of the index d
\* that holds the name
AddedPresent(d, call) ==
    /\ call.op = "add_object"
    /\ ~call.args.allow_duplicates
    /\ _normalize_path(call.args.path).exc = "none"
    /\ InSeq(ItemsAt(d, _normalize_path(call.args.path).path), call.args.object_name)

\* C29: add_object with allow_duplicates false returns false and leaves the index
\* unchanged when the name is already in the bucket; and a call of add_object,
\* extend_objects, remove_object, move_object or delete_path that does not allow
\* duplicates, made on an index in which no bucket holds an item twice, leaves
\* an index in which no bucket holds an item twice.
C29_NoDuplicateInBucket ==
    [][/\ AddedPresent(data, last') =>
            (last'.exc = "none" /\ last'.ret = FALSE /\ data' = data)
       /\ (WithoutDuplicates(last') /\ BucketsDuplicateFree(data)) =>
            BucketsDuplicateFree(data')]_vars

\* C29 witness: after add_object has put y into the bucket of x, a second
\* add_object of y there, duplicates not allowed, returned False; no bucket
\* holds an item twice
C29_Witness ==
    /\ ops = 2
    /\ last.op = "add_object"
    /\ ~last.args.allow_duplicates
    /\ last.args.object_name = "y"
    /\ last.args.path = SeqPath(<<"a", "a">>)
    /\ last.exc = "none"
    /\ last.ret = FALSE
    /\ BucketAt(data, <<"a", "a">>) = <<"x", "y">>
    /\ BucketsDuplicateFree(data)

(***************************************************************************)
(* Edge endpoints (SpecGraph)                                              *)
(***************************************************************************)
\* C30: after any sequence of add_step, remove_step, update_step, add_transition
\* and remove_transition calls, every step that is a member of some successor
\* set is itself a key of the adjacency mapping: no edge has a dangling endpoint.
C30_NoDanglingEndpoint ==
    \A step \in DOMAIN Adj : Adj[step] \subseteq DOMAIN Adj

\* C30 witness: update_step has renamed Clear, which had a self-loop and a
\* predecessor, to Dry; both edges now end at Dry and Clear is gone
C30_Witness ==
    /\ ops >= 1
    /\ last.op = "update_step"
    /\ last.args = [old_step |-> "Clear", new_step |-> "Dry"]
    /\ DOMAIN Adj = {"Dry", "Wipe"}
    /\ Edges(Adj) = {<<"Dry", "Dry">>, <<"Wipe", "Dry">>}

(***************************************************************************)
(* Rename onto a neighbour (SpecGraph)                                     *)
(***************************************************************************)
\* the call just made was update_step(old, new) on a graph where old is a step,
\* new is another name, and neither has an edge to itself
RenamedOntoOther ==
    /\ last'.op = "update_step"
    /\ last'.args.old_step \in DOMAIN Adj
    /\ last'.args.old_step # last'.args.new_step
    /\ last'.args.old_step \notin Adj[last'.args.old_step]
    /\ (last'.args.new_step \in DOMAIN Adj =>
            last'.args.new_step \notin Adj[last'.args.new_step])

\* C31: update_step(old, new) does not create a self-loop on new when the renamed
\* source and target collapse: an edge old->new is dropped, and when new has an
\* edge to old, old is discarded from the successor set of new and new is not
\* added to it.
C31_NoSelfLoopOnCollapse ==
    [][RenamedOntoOther =>
         /\ last'.args.old_step \notin Adj'[last'.args.new_step]
         /\ last'.args.new_step \notin Adj'[last'.args.new_step]]_vars

(***************************************************************************)
(* Graphs come and go by create and delete only (SpecGraphTools)           *)
(***************************************************************************)
\* the four handlers that work on one graph, looked up by graph_name
OneGraphTools ==
    {"add_process_step", "update_process_step", "add_process_transition",
     "remove_process_transition"}

\* C32: graphs are created only by create_process_graph and removed only by
\* delete_process_graph: add_process_step, update_process_step,
\* add_process_transition and remove_process_transition that name a graph which
\* does not exist return an error envelope and leave the set of graphs and the
\* contents of every graph unchanged.
C32_NoImplicitGraph ==
    [][last'.op = "handler" =>
         /\ (last'.args.name \in OneGraphTools
                 /\ ~HasGraph(graphs, Kw(last').graph_name)) =>
               /\ last'.exc = "none"
               /\ last'.ret.status = "error"
               /\ graphs' = graphs
               /\ data' = data
         /\ last'.args.name # "create_process_graph" =>
               DOMAIN graphs'.adj \subseteq DOMAIN graphs.adj
         /\ last'.args.name # "delete_process_graph" =>
               DOMAIN graphs.adj \subseteq DOMAIN graphs'.adj
         /\ \A g \in DOMAIN graphs.adj \cap DOMAIN graphs'.adj :
               graphs'.adj[g] # graphs.adj[g] =>
                  last'.args.name \in OneGraphTools /\ Kw(last').graph_name = g]_vars

\* C32 witness: with the graph h there and no graph g, add_process_step on g
\* was answered with an error; there is still no g, and h is as it was built
C32_Witness ==
    /\ ops = 3
    /\ last.op = "handler"
    /\ last.args.name = "add_process_step"
    /\ Kw(last).graph_name = "g"
    /\ last.ret.status = "error"
    /\ DOMAIN graphs.adj = {"h"}
    /\ Edges(graphs.adj["h"]) = {<<"Dry", "Clear">>}

(***************************************************************************)
(* Empty nodes (SpecClean)                                                 *)
(***************************************************************************)
\* the index has no empty bucket and no empty mapping other than the root
NoEmptyNode(d) ==
    \A path \in NodePaths(d, <<>>) :
        LET node == WalkFrom(d, path).node IN
        /\ IsList(node) => node.items # <<>>
        /\ (IsDict(node) /\ path # <<>>) => node.keys # <<>>

\* C33: starting from an index that contains no empty bucket and no empty
\* non-root mapping, after any sequence of add_object, extend_objects,
\* remove_object, move_object and delete_path calls (whether each call succeeds,
\* returns false or raises) the index contains no empty bucket and no empty
\* non-root mapping.
C33_NoEmptyNode == NoEmptyNode(data)

(***************************************************************************)
(* A move keeps the object (SpecDict)                                      *)
(***************************************************************************)
\* C34: move_object never loses the object: whenever it is called with the name
\* stored in the index, then after the call, whether it returned true, returned
\* false or raised because new_path does not resolve to a bucket, the name is
\* still stored in at least one bucket of the index.
C34_MoveKeepsObject ==
    [][(last'.op = "move_object" /\ CountAll(data, last'.args.object_name) > 0) =>
         CountAll(data', last'.args.object_name) > 0]_vars

(***************************************************************************)
(* Handlers run under the tool lock (Spec)                                 *)
(***************************************************************************)
\* C35: no tool handler executes against the knowledge store while the tool lock
\* is free: every handler invocation started by a batch has finished before that
\* batch releases the lock, also when the receiver task is cancelled (user exit
\* or sibling failure) while it awaits the worker thread that runs the handler.
\* A handler run is pending either for a caller inside the lock or not at all.
C35_HandlersUnderLock ==
    /\ \A c \in Invokers : handle[c].pc = "exec" => tool_lock.holder = c
    /\ orphans = <<>>

(***************************************************************************)
(* The end of a failing run (Spec)                                         *)
(***************************************************************************)
\* C36: run() ends normally after a task failure in every interleaving of the
\* tasks: also when the camera cannot be opened, or the transport fails, before
\* listen_audio has finished opening the microphone stream, the failure path
\* that releases the audio stream does not itself raise.
C36_FailureEndsNormally ==
    (run.exit = "error" /\ Phase(run.pc) = 5) => run.pc = "done"

=============================================================================
